---- MODULE Spec2Model ----
(***************************************************************************)
(* A model of the core of the textkit layout engine:                       *)
(*   - splitParagraphs and resolveGlyphIndices of LayoutEngine.js,         *)
(*   - the justification engine (factor / assign / justifyLine),           *)
(*   - finalizeLineFragment, layoutParagraph, typesetter and               *)
(*     LayoutEngine.layout.                                                *)
(* JavaScript arrays and strings are 0-based; the sequences below are      *)
(* 1-based, so element i of the code is element i + 1 of the model.        *)
(* The numbers the code computes in floating point are exact fractions    *)
(* [n, d] here, kept in lowest terms with d > 0.                           *)
(***************************************************************************)
EXTENDS Integers, Sequences, FiniteSets, TLC

VARIABLES
  pc,             \* the step the modelled call has reached
  string,         \* attributedString.string, a sequence of characters
  res,            \* the paragraphs returned by splitParagraphs
  str,            \* the substring of a run handed to font.layout
  stringIndices,  \* stringIndices returned by the font oracle
  glyphIndices,   \* the result of resolveGlyphIndices
  line,           \* the line handed to the justification engine
  options,        \* the options of the justification engine
  gap,            \* the gap justification computed for the line
  returned,       \* what justification(options)(line) returned
  container,      \* the rectangle the line fragment was created in
  style,          \* the paragraph style handed to finalizeLineFragment
  isLastFragment, \* argument of finalizeLineFragment
  isTruncated,    \* argument of finalizeLineFragment
  remainingWidth, \* local of finalizeLineFragment (line 309)
  calls,          \* the engines called so far, in order
  containers,     \* the containers handed to layout
  paragraphs,     \* typesetter: the paragraphs not yet taken by a column
  columns,        \* layoutContainer: the columns of the current container
  containerIndex, \* containers.map: the containers started so far
  columnIndex,    \* map(layoutColumn): the columns started so far
  paragraphRect,  \* layoutColumn: the rectangle left for the next paragraph
  nextParagraph,  \* layoutColumn: the paragraph to lay out next
  block,          \* layoutColumn: the block of the last paragraph laid out
  heap,           \* the attributes objects, by their address
  attributedString, \* the attributed string handed to a pass
  output,         \* what the pass returned
  paragraph,      \* the paragraph of glyphs handed to resolveAttachments
  boxes,          \* the BBox objects, by their address
  copied,         \* the address copy() returned, 0 before it is called
  points,         \* the points added through the original and through the copy
  frame,          \* render: options, what its loops have still to visit, the run in hand
  ctx             \* the calls render has made on ctx

splitVars == <<string, res>>
glyphVars == <<str, stringIndices, glyphIndices>>
justVars == <<line, options, gap, returned>>
finVars == <<container, style, isLastFragment, isTruncated, remainingWidth, calls>>
layoutVars == <<containers, paragraphs, columns, containerIndex, columnIndex,
                paragraphRect, nextParagraph, block>>
vars == <<pc, string, res, str, stringIndices, glyphIndices, line, options, gap, returned,
          container, style, isLastFragment, isTruncated, remainingWidth, calls,
          containers, paragraphs, columns, containerIndex, columnIndex,
          paragraphRect, nextParagraph, block, heap, attributedString, output,
          paragraph, boxes, copied, points, frame, ctx>>
stringVars == <<heap, attributedString, output>>
attachVars == <<paragraph>>
boxVars == <<boxes, copied, points>>
renderVars == <<frame, ctx>>
restVars == <<attachVars, boxVars, renderVars>>

----------------------------------------------------------------------------
(* Bounds of the model.                                                    *)

MaxLen == 3        \* longest input string of splitParagraphs
MaxStrLen == 4     \* longest run substring handed to resolveGlyphIndices
MaxGlyphs == 3     \* most glyphs the font oracle returns for such a substring
MaxLineGlyphs == 3 \* most glyphs of a line of arbitrary glyphs
MaxWordLen == 17   \* most letters of each word of a two-word line
GlyphAdvance == 10 \* the xAdvance of every glyph before justification
MaxFragGlyphs == 3 \* most glyphs of a line fragment to finalize
ColumnX == 5       \* x of the rectangle of a line fragment
ColumnWidth == 25  \* width of the rectangle of a line fragment
MaxContainers == 2 \* most containers handed to layout
MaxColumns == 2    \* most columns of a container
MaxLines == 2      \* most lines the line breaker returns for a paragraph
LineHeight == 8    \* height of every line the line breaker returns
PageHeight == 20   \* height of the bounding box of every container
ColumnGap == 1     \* columnGap of every container

(* The characters of the input strings: a letter, a space, the line feed   *)
(* and the carriage return.                                                *)
LF == "\n"
Chars == {"a", " ", LF, "\r"}

RECURSIVE SeqsUpTo(_, _)
SeqsUpTo(S, n) ==
  IF n = 0 THEN {<<>>}
  ELSE LET shorter == SeqsUpTo(S, n - 1)
       IN  shorter \cup {Append(s, x) : s \in {t \in shorter : Len(t) = n - 1}, x \in S}

RECURSIVE Concat(_)
Concat(ss) == IF ss = <<>> THEN <<>> ELSE Head(ss) \o Concat(Tail(ss))

----------------------------------------------------------------------------
(* States of the variables a specification does not use.                   *)

IdleSplit == string = <<>> /\ res = <<>>
IdleGlyph == str = <<>> /\ stringIndices = <<>> /\ glyphIndices = <<>>
IdleJust == line = <<>> /\ options = <<>> /\ gap = <<>> /\ returned = "none"
IdleFin ==
  /\ container = <<>> /\ style = <<>> /\ isLastFragment = FALSE /\ isTruncated = FALSE
  /\ remainingWidth = <<>> /\ calls = <<>>
IdleString == heap = <<>> /\ attributedString = <<>> /\ output = <<>>
IdleAttach == paragraph = <<>>
IdleBox == boxes = <<>> /\ copied = 0 /\ points = <<>>
IdleRender == frame = <<>> /\ ctx = <<>>
IdleRest == IdleAttach /\ IdleBox /\ IdleRender
IdleTypesetter ==
  /\ containers = <<>> /\ paragraphs = <<>> /\ columns = <<>>
  /\ containerIndex = 0 /\ columnIndex = 0
  /\ paragraphRect = <<>> /\ nextParagraph = 0 /\ block = <<>>

----------------------------------------------------------------------------
(* splitParagraphs (LayoutEngine.js 99-119).                               *)

(* String.prototype.indexOf(ch, from): the first 0-based position >= from  *)
(* holding ch, or -1.                                                      *)
indexOf(s, ch, from) ==
  LET hits == {i \in from .. Len(s) - 1 : s[i + 1] = ch}
  IN  IF hits = {} THEN 0 - 1 ELSE CHOOSE i \in hits : \A k \in hits : i <= k

(* attributedString.slice(start, end), as far as the string goes: the      *)
(* characters at the 0-based positions start .. end - 1.                   *)
slice(s, start, end) == SubSeq(s, start + 1, end)

(* The mutants of splitRest: the rest after the last line feed is dropped, *)
(* or pushed even when it is empty.                                        *)
splitRestDropped(s, start, out) == out
splitRestAlways(s, start, out) ==
  IF start <= Len(s) THEN Append(out, slice(s, start, Len(s))) ELSE out

(* Lines 112-114: the characters after the last line feed, if any.         *)
splitRest(s, start, out) ==
  IF start < Len(s) THEN Append(out, slice(s, start, Len(s))) ELSE out

(* Lines 106-110: the while loop, one paragraph per line feed.             *)
RECURSIVE splitLoop(_, _, _, _)
splitLoop(s, start, breakPoint, out) ==
  IF breakPoint > 0
    THEN splitLoop(s, breakPoint, indexOf(s, LF, breakPoint) + 1,
                   Append(out, slice(s, start, breakPoint)))
    ELSE splitRest(s, start, out)

splitParagraphs(s) == splitLoop(s, 0, indexOf(s, LF, 0) + 1, <<>>)

(* The older splitParagraphs (src/unnamed/part_002 88-97):                 *)
(* string.split(/(.*\n{1})/g).filter(Boolean), then one slice per piece.   *)

(* The characters . does not match.                                        *)
LineTerminators == {LF, "\r"}

(* The end of the match of (.*\n{1}) that starts at position q, or -1: the *)
(* characters up to the next line feed, none of them a line terminator.    *)
matchEnd(s, q) ==
  LET n == indexOf(s, LF, q)
  IN  IF n = 0 - 1 \/ (\E i \in q .. n - 1 : s[i + 1] \in LineTerminators)
        THEN 0 - 1 ELSE n + 1

(* String.prototype.split with a regular expression that has one group:    *)
(* p is the end of the last match, q the position tried next; a match      *)
(* gives the characters since the last match and the group.                *)
RECURSIVE splitRegExp(_, _, _, _)
splitRegExp(s, p, q, out) ==
  IF q >= Len(s) THEN Append(out, slice(s, p, Len(s)))
  ELSE IF matchEnd(s, q) = 0 - 1 THEN splitRegExp(s, p, q + 1, out)
  ELSE splitRegExp(s, matchEnd(s, q), matchEnd(s, q),
                   out \o <<slice(s, p, q), slice(s, q, matchEnd(s, q))>>)

(* filter(Boolean): the empty strings are dropped.                         *)
filterBoolean(pieces) == SelectSeq(pieces, LAMBDA piece : piece # <<>>)

(* Lines 92-96 of part_002: the slice of the string for every piece.       *)
RECURSIVE mapSlices(_, _, _)
mapSlices(s, pieces, index) ==
  IF pieces = <<>> THEN <<>>
  ELSE <<slice(s, index, index + Len(Head(pieces)))>>
         \o mapSlices(s, Tail(pieces), index + Len(Head(pieces)))

splitParagraphsRegExp(s) == mapSlices(s, filterBoolean(splitRegExp(s, 0, 0, <<>>)), 0)

InitSplit ==
  /\ pc = "split"
  /\ string \in SeqsUpTo(Chars, MaxLen)
  /\ res = <<>>
  /\ IdleGlyph /\ IdleJust /\ IdleFin /\ IdleTypesetter /\ IdleString /\ IdleRest

SplitParagraphs ==
  /\ pc = "split"
  /\ res' = splitParagraphs(string)
  /\ pc' = "splitDone"
  /\ UNCHANGED <<string, glyphVars, justVars, finVars, layoutVars, stringVars, restVars>>

(* The older splitParagraphs on the same string.                           *)
SplitParagraphsRegExp ==
  /\ pc = "split"
  /\ res' = splitParagraphsRegExp(string)
  /\ pc' = "regExpDone"
  /\ UNCHANGED <<string, glyphVars, justVars, finVars, layoutVars, stringVars, restVars>>

NextSplit == SplitParagraphs \/ SplitParagraphsRegExp

SpecSplit == InitSplit /\ [][NextSplit]_vars

(* C1: once splitParagraphs has returned, the paragraphs concatenated in   *)
(* order are exactly the input string.                                     *)
C1_ParagraphCoverage == pc = "splitDone" => Concat(res) = string

(* A split string that starts and ends with a line feed and holds two      *)
(* line feeds in a row.                                                    *)
C1_Witness ==
  /\ pc = "splitDone"
  /\ Len(string) >= 3
  /\ string[1] = LF /\ string[2] = LF /\ string[Len(string)] = LF
  /\ Len(res) >= 2

(* C2: every paragraph is non-empty and holds a line feed at most once and *)
(* only as its last character; every paragraph but the last ends with a    *)
(* line feed; there are as many paragraphs as line feeds, plus one when    *)
(* the string is non-empty and does not end with a line feed.              *)
NumLF(s) == Cardinality({i \in 1 .. Len(s) : s[i] = LF})

C2_ParagraphShape ==
  pc = "splitDone" =>
    /\ \A k \in 1 .. Len(res) :
         /\ res[k] # <<>>
         /\ \A i \in 1 .. Len(res[k]) - 1 : res[k][i] # LF
         /\ k < Len(res) => res[k][Len(res[k])] = LF
    /\ Len(res) = NumLF(string)
                  + (IF string # <<>> /\ string[Len(string)] # LF THEN 1 ELSE 0)

(* A string that ends with two line feeds: the last one is a paragraph of  *)
(* its own and nothing follows it.                                         *)
C2_Witness ==
  /\ pc = "splitDone"
  /\ Len(string) >= 2
  /\ string[Len(string)] = LF /\ string[Len(string) - 1] = LF
  /\ res[Len(res)] = <<LF>>

(* C26, as claimed: for every string of letters, spaces, line feeds and    *)
(* carriage returns the older splitParagraphs, which splits with a         *)
(* regular expression, returns the paragraphs of the one that searches     *)
(* the line feeds with indexOf.                                            *)
C26_Original ==
  pc \in {"splitDone", "regExpDone"} =>
    /\ res = splitParagraphs(string)
    /\ res = splitParagraphsRegExp(string)

----------------------------------------------------------------------------
(* resolveGlyphIndices (LayoutEngine.js 147-180).                          *)

(* The value an array element reads as when it was never assigned or was   *)
(* assigned undefined.                                                     *)
undefined == -1

(* a[i] of a JavaScript array: undefined outside the array.                *)
arrGet(a, i) == IF 0 <= i /\ i < Len(a) THEN a[i + 1] ELSE undefined

(* a[i] = v of a JavaScript array: an assignment past the end grows the    *)
(* array, the elements skipped reading as undefined.                       *)
arrSet(a, i, v) ==
  IF i < Len(a) THEN [a EXCEPT ![i + 1] = v]
  ELSE a \o [k \in 1 .. i - Len(a) |-> undefined] \o <<v>>

(* The mutant of innerLoop: the comparison is strict.                      *)
RECURSIVE innerLoopStrict(_, _, _, _)
innerLoopStrict(gi, si, i, j) ==
  IF j < Len(si)
    THEN IF si[j + 1] > i
           THEN arrSet(gi, i, j)
           ELSE innerLoopStrict(arrSet(gi, i, undefined), si, i, j + 1)
    ELSE gi

(* Another mutant of innerLoop: the loop does not break at the first hit.   *)
RECURSIVE innerLoopNoBreak(_, _, _, _)
innerLoopNoBreak(gi, si, i, j) ==
  IF j < Len(si)
    THEN innerLoopNoBreak(arrSet(gi, i, IF si[j + 1] >= i THEN j ELSE undefined),
                          si, i, j + 1)
    ELSE gi

(* Lines 151-158: the first glyph whose string index is at least i, the    *)
(* element being set to undefined for every glyph passed over.             *)
RECURSIVE innerLoop(_, _, _, _)
innerLoop(gi, si, i, j) ==
  IF j < Len(si)
    THEN IF si[j + 1] >= i
           THEN arrSet(gi, i, j)
           ELSE innerLoop(arrSet(gi, i, undefined), si, i, j + 1)
    ELSE gi

(* Lines 150-159: one pass of the inner loop per character.                *)
RECURSIVE scanLoop(_, _, _, _)
scanLoop(gi, s, si, i) ==
  IF i < Len(s) THEN scanLoop(innerLoop(gi, si, i, 0), s, si, i + 1) ELSE gi

(* Lines 162-168: from the right, undefined elements take the last value   *)
(* seen.                                                                   *)
RECURSIVE backFill(_, _, _)
backFill(gi, i, lastValue) ==
  IF i >= 0
    THEN IF arrGet(gi, i) = undefined
           THEN backFill(arrSet(gi, i, lastValue), i - 1, lastValue)
           ELSE backFill(gi, i - 1, arrGet(gi, i))
    ELSE gi

(* The mutants of forwardFill: the pass is left out, or every undefined    *)
(* element takes the first value instead of the last one seen.             *)
forwardFillSkipped(gi, i, lastValue) == gi
RECURSIVE forwardFillFirst(_, _, _)
forwardFillFirst(gi, i, lastValue) ==
  IF i < Len(gi)
    THEN IF arrGet(gi, i) = undefined
           THEN forwardFillFirst(arrSet(gi, i, lastValue), i + 1, lastValue)
           ELSE forwardFillFirst(gi, i + 1, lastValue)
    ELSE gi

(* Lines 171-177: from the left, undefined elements take the last value    *)
(* seen.                                                                   *)
RECURSIVE forwardFill(_, _, _)
forwardFill(gi, i, lastValue) ==
  IF i < Len(gi)
    THEN IF arrGet(gi, i) = undefined
           THEN forwardFill(arrSet(gi, i, lastValue), i + 1, lastValue)
           ELSE forwardFill(gi, i + 1, arrGet(gi, i))
    ELSE gi

resolveGlyphIndices(s, si) ==
  LET scanned == scanLoop(<<>>, s, si, 0)
      backed  == backFill(scanned, Len(scanned) - 1, arrGet(scanned, Len(scanned) - 1))
  IN  forwardFill(backed, 0, arrGet(backed, 0))

(* The word "office" and the string indices of its five glyphs when the    *)
(* font ligates "fi".                                                      *)
Office == <<"o", "f", "f", "i", "c", "e">>
OfficeIndices == <<0, 1, 2, 4, 5>>

InitGlyph ==
  /\ pc = "glyph"
  /\ \/ /\ str \in SeqsUpTo({"x"}, MaxStrLen)
        /\ stringIndices \in SeqsUpTo(0 .. MaxStrLen, MaxGlyphs)
     \/ /\ str = Office
        /\ stringIndices = OfficeIndices
  /\ glyphIndices = <<>>
  /\ IdleSplit /\ IdleJust /\ IdleFin /\ IdleTypesetter /\ IdleString /\ IdleRest

ResolveGlyphIndices ==
  /\ pc = "glyph"
  /\ glyphIndices' = resolveGlyphIndices(str, stringIndices)
  /\ pc' = "glyphDone"
  /\ UNCHANGED <<str, stringIndices, splitVars, justVars, finVars, layoutVars,
                 stringVars, restVars>>

NextGlyph == ResolveGlyphIndices

SpecGlyph == InitGlyph /\ [][NextGlyph]_vars

ValidGlyphIndices ==
  /\ Len(glyphIndices) = Len(str)
  /\ \A i \in 1 .. Len(glyphIndices) :
       glyphIndices[i] # undefined /\ glyphIndices[i] \in 0 .. Len(stringIndices) - 1

(* C3, as claimed: for every substring and every stringIndices array, the  *)
(* empty one included, resolveGlyphIndices returns one defined, valid      *)
(* glyph offset per character.                                             *)
C3_Original == pc = "glyphDone" => ValidGlyphIndices

(* C3, amended: for a non-empty stringIndices array the result holds one   *)
(* defined glyph offset in [0, stringIndices.length) per character; for    *)
(* an empty stringIndices array the result is the empty array.             *)
C3_TotalWhenGlyphs ==
  pc = "glyphDone" =>
    IF stringIndices # <<>> THEN ValidGlyphIndices ELSE glyphIndices = <<>>

(* Characters beyond the last string index: their elements are undefined   *)
(* after the scan and are filled from the left.                            *)
C3_Witness ==
  /\ pc = "glyphDone"
  /\ stringIndices # <<>>
  /\ Len(str) >= 3
  /\ \A j \in 1 .. Len(stringIndices) : stringIndices[j] < Len(str) - 2

(* C4: for a non-empty stringIndices array, monotone or not, glyphIndices  *)
(* is non-decreasing in the character offset.                              *)
C4_Monotone ==
  pc = "glyphDone" /\ stringIndices # <<>> =>
    \A i \in 1 .. Len(glyphIndices) - 1 : glyphIndices[i] <= glyphIndices[i + 1]

(* String indices that decrease, with characters beyond the largest one.   *)
C4_Witness ==
  /\ pc = "glyphDone"
  /\ Len(stringIndices) >= 2
  /\ stringIndices[1] > stringIndices[2]
  /\ Len(str) > stringIndices[1] + 1
  /\ glyphIndices[1] < glyphIndices[Len(glyphIndices)]

(* C5, as claimed: "office" with string indices [0,1,2,4,5] resolves to    *)
(* [0,0,0,1,2,3,4].                                                        *)
C5_Original ==
  pc = "glyphDone" /\ str = Office /\ stringIndices = OfficeIndices =>
    glyphIndices = <<0, 0, 0, 1, 2, 3, 4>>

(* C5, amended: "office" with string indices [0,1,2,4,5] resolves to       *)
(* [0,1,2,3,3,4], one valid glyph offset for each of its six characters.   *)
C5_Office ==
  pc = "glyphDone" /\ str = Office /\ stringIndices = OfficeIndices =>
    glyphIndices = <<0, 1, 2, 3, 3, 4>> /\ ValidGlyphIndices

C5_Witness ==
  /\ pc = "glyphDone" /\ str = Office /\ stringIndices = OfficeIndices
  /\ Len(glyphIndices) = 6

----------------------------------------------------------------------------
(* Exact fractions.                                                        *)

(* The arguments are bound as values (r, p below) before they are used, so *)
(* that each is computed once wherever the operators are evaluated.        *)
RECURSIVE GCD(_, _)
GCD(a, b) == IF b = 0 THEN a ELSE CHOOSE g \in {GCD(b, r) : r \in {a % b}} : TRUE

Abs(x) == IF x < 0 THEN 0 - x ELSE x

Frac(n, d) ==
  CHOOSE f \in
    {LET g == GCD(Abs(p[1]), Abs(p[2]))
         sgn == IF p[2] < 0 THEN 0 - 1 ELSE 1
     IN  [n |-> sgn * (p[1] \div g), d |-> sgn * (p[2] \div g)] : p \in {<<n, d>>}} : TRUE

Zero == [n |-> 0, d |-> 1]
One == [n |-> 1, d |-> 1]
FAdd(x, y) == Frac(x.n * y.d + y.n * x.d, x.d * y.d)
FNeg(x) == [n |-> 0 - x.n, d |-> x.d]
FSub(x, y) == FAdd(x, FNeg(y))
FMul(x, y) == Frac(x.n * y.n, x.d * y.d)
FDiv(x, y) == Frac(x.n * y.d, x.d * y.n)
FAbs(x) == [n |-> Abs(x.n), d |-> x.d]
FLeq(x, y) == x.n * y.d <= y.n * x.d
FLess(x, y) == x.n * y.d < y.n * x.d

(* The sum of xs[lo .. hi], by halves.                                     *)
RECURSIVE FSumRange(_, _, _)
FSumRange(xs, lo, hi) ==
  IF lo > hi THEN Zero
  ELSE IF lo = hi THEN xs[lo]
  ELSE LET mid == (lo + hi) \div 2
       IN  FAdd(FSumRange(xs, lo, mid), FSumRange(xs, mid + 1, hi))
FSum(xs) == FSumRange(xs, 1, Len(xs))

----------------------------------------------------------------------------
(* The justification engine (part_004).                                    *)

KASHIDA_PRIORITY == 0
WHITESPACE_PRIORITY == 1
LETTER_PRIORITY == 2
NULL_PRIORITY == 3

EXPAND_WHITESPACE_FACTOR ==
  [before |-> Frac(1, 2), after |-> Frac(1, 2),
   priority |-> WHITESPACE_PRIORITY, unconstrained |-> FALSE]

EXPAND_CHAR_FACTOR ==
  [before |-> Frac(37, 256), after |-> Frac(37, 256),
   priority |-> LETTER_PRIORITY, unconstrained |-> FALSE]

SHRINK_WHITESPACE_FACTOR ==
  [before |-> Frac(0 - 11, 256), after |-> Frac(0 - 11, 256),
   priority |-> WHITESPACE_PRIORITY, unconstrained |-> FALSE]

SHRINK_CHAR_FACTOR ==
  [before |-> Frac(0 - 11, 256), after |-> Frac(0 - 11, 256),
   priority |-> LETTER_PRIORITY, unconstrained |-> FALSE]

(* R.propOr on an object, and R.merge of a factor with an object that may  *)
(* override some of its four keys.                                         *)
propOr(default, key, obj) == IF key \in DOMAIN obj THEN obj[key] ELSE default
merge(a, b) ==
  [before |-> propOr(a.before, "before", b),
   after |-> propOr(a.after, "after", b),
   priority |-> propOr(a.priority, "priority", b),
   unconstrained |-> propOr(a.unconstrained, "unconstrained", b)]

(* The empty object.                                                       *)
EmptyObject == [k \in {} |-> 0]

getCharFactor(direction, opts) ==
  LET expandCharFactor == propOr(EmptyObject, "expandCharFactor", opts)
      shrinkCharFactor == propOr(EmptyObject, "shrinkCharFactor", opts)
  IN  IF direction = "GROW"
        THEN merge(EXPAND_CHAR_FACTOR, expandCharFactor)
        ELSE merge(SHRINK_CHAR_FACTOR, shrinkCharFactor)

getWhitespaceFactor(direction, opts) ==
  LET expandWhitespaceFactor == propOr(EmptyObject, "expandWhitespaceFactor", opts)
      shrinkWhitespaceFactor == propOr(EmptyObject, "shrinkWhitespaceFactor", opts)
  IN  IF direction = "GROW"
        THEN merge(EXPAND_WHITESPACE_FACTOR, expandWhitespaceFactor)
        ELSE merge(SHRINK_WHITESPACE_FACTOR, shrinkWhitespaceFactor)

(* glyph/isWhiteSpace: whether the glyph is a white space.                 *)
isWhiteSpace(glyph) == glyph.isWhiteSpace

(* factors[index - 1].after = 0, for index > 0.                            *)
zeroPrevAfter(factors, index) ==
  IF index > 0 THEN [factors EXCEPT ![index].after = Zero] ELSE factors

(* Lines 64-87: the loop of factor over the glyphs of one run.             *)
RECURSIVE factorLoop(_, _, _, _, _)
factorLoop(glyphs, index, factors, charFactor, whitespaceFactor) ==
  IF index < Len(glyphs)
    THEN LET glyph == glyphs[index + 1]
             next ==
               IF isWhiteSpace(glyph)
                 THEN IF index = Len(glyphs) - 1
                        THEN Append(zeroPrevAfter(factors, index),
                                    [whitespaceFactor EXCEPT !.before = Zero])
                        ELSE Append(factors, whitespaceFactor)
                 ELSE IF glyph.isMark /\ index > 0
                        THEN Append(zeroPrevAfter(factors, index),
                                    [factors[index] EXCEPT !.before = Zero])
                        ELSE Append(factors, charFactor)
         IN  factorLoop(glyphs, index + 1, next, charFactor, whitespaceFactor)
    ELSE factors

factor(direction, opts, glyphs) ==
  factorLoop(glyphs, 0, <<>>, getCharFactor(direction, opts),
             getWhitespaceFactor(direction, opts))

(* R.adjust(0, R.assoc('before', 0)) and R.adjust(-1, R.assoc('after', 0)):*)
(* a list without the element is returned as it is.                        *)
adjustFirstBefore(factors) ==
  IF factors = <<>> THEN factors ELSE [factors EXCEPT ![1].before = Zero]
adjustLastAfter(factors) ==
  IF factors = <<>> THEN factors ELSE [factors EXCEPT ![Len(factors)].after = Zero]

RECURSIVE concatFactors(_, _, _)
concatFactors(direction, opts, runs) ==
  IF runs = <<>> THEN <<>>
  ELSE factor(direction, opts, Head(runs).glyphs)
         \o concatFactors(direction, opts, Tail(runs))

getFactors(g, ln, opts) ==
  LET direction == IF FLess(Zero, g) THEN "GROW" ELSE "SHRINK"
  IN  adjustLastAfter(adjustFirstBefore(concatFactors(direction, opts, ln.runs)))

Priorities == KASHIDA_PRIORITY .. NULL_PRIORITY

(* Lines 101-110: the sum of before + after of the factors at priority p,  *)
(* of all of them or of the unconstrained ones only.                       *)
sumAt(factors, p, unconstrainedOnly) ==
  FSum([j \in 1 .. Len(factors) |->
          IF factors[j].priority = p /\ (unconstrainedOnly => factors[j].unconstrained)
            THEN FAdd(factors[j].before, factors[j].after)
            ELSE Zero])

totalOf(factors) ==
  FSum([j \in 1 .. Len(factors) |-> FAdd(factors[j].before, factors[j].after)])

(* The mutant of chooseLoop: a priority that covers the remaining gap is   *)
(* applied in full instead of in proportion.                               *)
RECURSIVE chooseLoopFull(_, _)
chooseLoopFull(st, priority) ==
  IF priority > NULL_PRIORITY THEN [st EXCEPT !.priority = priority]
  ELSE
    LET prioritySum == st.priorities[priority]
        seen == IF st.highestPriority = 0 - 1
                  THEN [st EXCEPT !.highestPriority = priority,
                                  !.highestPrioritySum = prioritySum]
                  ELSE st
        full == [seen EXCEPT !.priorities[priority] = One,
                             !.remainingGap = FSub(seen.remainingGap, prioritySum)]
    IN  IF prioritySum # Zero
          THEN IF FLeq(FAbs(seen.remainingGap), FAbs(prioritySum))
                 THEN [seen EXCEPT !.priorities[priority] = One,
                                   !.unconstrained[priority] = Zero,
                                   !.remainingGap = Zero,
                                   !.priority = priority]
               ELSE IF full.unconstrained[priority] # Zero
                 THEN [full EXCEPT !.unconstrained[priority] =
                                      FDiv(full.remainingGap, full.unconstrained[priority]),
                                   !.remainingGap = Zero,
                                   !.priority = priority]
               ELSE chooseLoopFull(full, priority + 1)
          ELSE chooseLoopFull(st, priority + 1)

(* Lines 117-145: the priorities to apply. The result records in priority  *)
(* the value of the loop variable when the loop is left.                   *)
RECURSIVE chooseLoop(_, _)
chooseLoop(st, priority) ==
  IF priority > NULL_PRIORITY THEN [st EXCEPT !.priority = priority]
  ELSE
    LET prioritySum == st.priorities[priority]
        seen == IF st.highestPriority = 0 - 1
                  THEN [st EXCEPT !.highestPriority = priority,
                                  !.highestPrioritySum = prioritySum]
                  ELSE st
        full == [seen EXCEPT !.priorities[priority] = One,
                             !.remainingGap = FSub(seen.remainingGap, prioritySum)]
    IN  IF prioritySum # Zero
          THEN IF FLeq(FAbs(seen.remainingGap), FAbs(prioritySum))
                 THEN [seen EXCEPT !.priorities[priority] =
                                      FDiv(seen.remainingGap, prioritySum),
                                   !.unconstrained[priority] = Zero,
                                   !.remainingGap = Zero,
                                   !.priority = priority]
               ELSE IF full.unconstrained[priority] # Zero
                 THEN [full EXCEPT !.unconstrained[priority] =
                                      FDiv(full.remainingGap, full.unconstrained[priority]),
                                   !.remainingGap = Zero,
                                   !.priority = priority]
               ELSE chooseLoop(full, priority + 1)
          ELSE chooseLoop(st, priority + 1)

(* The mutant of zeroRemaining: the priorities after the one the loop was  *)
(* left at are applied in full.                                            *)
zeroRemainingNot(st) ==
  [st EXCEPT !.priorities = [p \in Priorities |->
                               IF p > st.priority THEN One ELSE st.priorities[p]]]

(* Lines 147-151: the priorities after the one the loop was left at.       *)
zeroRemaining(st) ==
  [st EXCEPT !.priorities = [p \in Priorities |->
                               IF p > st.priority THEN Zero ELSE st.priorities[p]],
             !.unconstrained = [p \in Priorities |->
                               IF p > st.priority THEN Zero ELSE st.unconstrained[p]]]

(* The mutant of overdrive: space left over is never assigned.             *)
overdriveNever(st, g, total) == st

(* Another mutant of overdrive: what is left over of a negative gap is     *)
(* assigned as well.                                                       *)
overdriveAlways(st, g, total) ==
  IF st.remainingGap # Zero /\ st.highestPriority > 0 - 1
    THEN [st EXCEPT !.priorities[st.highestPriority] =
            FDiv(FAdd(st.highestPrioritySum, FSub(g, total)), st.highestPrioritySum)]
    ELSE st

(* Lines 153-157: space left over goes to the highest priority seen.       *)
overdrive(st, g, total) ==
  IF FLess(Zero, st.remainingGap) /\ st.highestPriority > 0 - 1
    THEN [st EXCEPT !.priorities[st.highestPriority] =
            FDiv(FAdd(st.highestPrioritySum, FSub(g, total)), st.highestPrioritySum)]
    ELSE st

(* Lines 160-181: the distance to add to the advance of glyph index.       *)
distanceOf(st, factors, index) ==
  LET f == factors[index + 1]
      hasNext == index + 1 < Len(factors)
      next == factors[index + 2]
      constrained ==
        FAdd(FMul(f.after, st.priorities[f.priority]),
             IF hasNext THEN FMul(next.before, st.priorities[next.priority]) ELSE Zero)
      free ==
        IF f.unconstrained
          THEN FAdd(FMul(f.after, st.unconstrained[f.priority]),
                    IF hasNext THEN FMul(next.before, st.unconstrained[next.priority])
                    ELSE Zero)
          ELSE Zero
  IN  FAdd(constrained, free)

assign(g, factors) ==
  LET start == [priorities |-> [p \in Priorities |-> sumAt(factors, p, FALSE)],
                unconstrained |-> [p \in Priorities |-> sumAt(factors, p, TRUE)],
                highestPriority |-> 0 - 1,
                highestPrioritySum |-> Zero,
                remainingGap |-> g,
                priority |-> KASHIDA_PRIORITY]
      chosen == overdrive(zeroRemaining(chooseLoop(start, KASHIDA_PRIORITY)),
                          g, totalOf(factors))
  IN  [index \in 1 .. Len(factors) |-> distanceOf(chosen, factors, index - 1)]

(* The number of glyphs of the runs before run r.                          *)
RECURSIVE glyphsBefore(_, _)
glyphsBefore(runs, r) ==
  IF r <= 1 THEN 0 ELSE glyphsBefore(runs, r - 1) + Len(runs[r - 1].positions)

(* Lines 206-215: each distance is added to the xAdvance of its glyph, the *)
(* glyphs taken run by run.                                                *)
justifyLine(distances, ln) ==
  [box |-> ln.box,
   runs |->
     [r \in 1 .. Len(ln.runs) |->
        [glyphs |-> ln.runs[r].glyphs,
         positions |->
           [k \in 1 .. Len(ln.runs[r].positions) |->
              [xAdvance |-> FAdd(ln.runs[r].positions[k].xAdvance,
                                 distances[glyphsBefore(ln.runs, r) + k])]]]]]

(* attributedString/advanceWidth: the sum of the xAdvance of the glyphs.   *)
advanceWidth(ln) ==
  FSum([r \in 1 .. Len(ln.runs) |->
          FSum([k \in 1 .. Len(ln.runs[r].positions) |->
                  ln.runs[r].positions[k].xAdvance])])

gapOf(ln) == FSub(ln.box.width, advanceWidth(ln))

(* Lines 228-237: what justification(options)(line) leaves in the line and *)
(* what it returns.                                                        *)
justification(opts, ln) ==
  LET g == gapOf(ln)
  IN  IF g = Zero
        THEN [line |-> ln, gap |-> g, returned |-> "undefined"]
        ELSE [line |-> justifyLine(assign(g, getFactors(g, ln, opts)), ln),
              gap |-> g, returned |-> "line"]

(* The glyphs of the lines: a letter, a white space, a combining mark.     *)
(* hanging tells whether the glyph is punctuation that may hang at the     *)
(* start or at the end of a line.                                          *)
Letter == [isWhiteSpace |-> FALSE, isMark |-> FALSE, hanging |-> "no"]
Space == [isWhiteSpace |-> TRUE, isMark |-> FALSE, hanging |-> "no"]
Mark == [isWhiteSpace |-> FALSE, isMark |-> TRUE, hanging |-> "no"]
GlyphKinds == {Letter, Space, Mark}

runOf(glyphs) ==
  [glyphs |-> glyphs,
   positions |-> [k \in 1 .. Len(glyphs) |-> [xAdvance |-> Frac(GlyphAdvance, 1)]]]

(* The sequences of non-empty runs of at most n glyphs in all.             *)
RECURSIVE RunsUpTo(_)
RunsUpTo(n) ==
  IF n = 0 THEN {<<>>}
  ELSE {<<>>} \cup
       UNION {{<<runOf(g)>> \o rest : rest \in RunsUpTo(n - Len(g))} :
                g \in SeqsUpTo(GlyphKinds, n) \ {<<>>}}

(* One run of two words of m and n letters with one white space between.   *)
twoWords(m, n) ==
  <<runOf([k \in 1 .. m + 1 + n |-> IF k = m + 1 THEN Space ELSE Letter])>>

(* The gaps box.width - advanceWidth of the lines of arbitrary glyphs.     *)
Gaps == {Frac(0 - 2, 1), Frac(0 - 1, 16), Zero, Frac(1, 4), One, Frac(10, 1)}
TenGap == Frac(10, 1)

lineOf(runs, g) ==
  LET bare == [box |-> [width |-> Zero], runs |-> runs]
  IN  [bare EXCEPT !.box.width = FAdd(advanceWidth(bare), g)]

(* The options the layout engine passes, and options that make the white   *)
(* space factors unconstrained.                                            *)
DefaultOptions == [factor |-> One]
UnconstrainedOptions ==
  [factor |-> One,
   expandWhitespaceFactor |-> [unconstrained |-> TRUE],
   shrinkWhitespaceFactor |-> [unconstrained |-> TRUE]]

InitJustify ==
  /\ pc = "justify"
  /\ \/ \E runs \in RunsUpTo(MaxLineGlyphs), g \in Gaps : line = lineOf(runs, g)
     \/ \E m, n \in 1 .. MaxWordLen : line = lineOf(twoWords(m, n), TenGap)
  /\ \/ options = DefaultOptions
     \/ options = UnconstrainedOptions
  /\ gap = <<>>
  /\ returned = "none"
  /\ IdleSplit /\ IdleGlyph /\ IdleFin /\ IdleTypesetter /\ IdleString /\ IdleRest

Justify ==
  /\ pc = "justify"
  /\ LET result == justification(options, line)
     IN  line' = result.line /\ gap' = result.gap /\ returned' = result.returned
  /\ pc' = "justifyDone"
  /\ UNCHANGED <<options, splitVars, glyphVars, finVars, layoutVars, stringVars, restVars>>

NextJustify == Justify

SpecJustify == InitJustify /\ [][NextJustify]_vars

(* The glyphs and the positions of the line, run after run.                *)
RECURSIVE glyphsOf(_)
glyphsOf(runs) == IF runs = <<>> THEN <<>> ELSE Head(runs).glyphs \o glyphsOf(Tail(runs))
RECURSIVE positionsOf(_)
positionsOf(runs) ==
  IF runs = <<>> THEN <<>> ELSE Head(runs).positions \o positionsOf(Tail(runs))

(* What justification added to the xAdvance of glyph k of the line.        *)
addedTo(k) == FSub(positionsOf(line.runs)[k].xAdvance, Frac(GlyphAdvance, 1))

(* C6, as claimed: for every non-empty line and every gap, after           *)
(* justification the total xAdvance equals box.width within 1 unit.        *)
C6_Original ==
  pc = "justifyDone" /\ options = DefaultOptions /\ line.runs # <<>> =>
    FLeq(FAbs(gapOf(line)), One)

(* C6, amended: with the default factors, when the factors of the line do  *)
(* not all vanish and the gap is positive, or is negative and at most the  *)
(* sum of all factors in size, the distances added sum to the gap, so the  *)
(* total xAdvance equals box.width; otherwise they sum to the sum of all   *)
(* factors only.                                                           *)
C6_Conservation ==
  pc = "justifyDone" /\ options = DefaultOptions =>
    LET total == totalOf(getFactors(gap, line, options))
    IN  IF total # Zero /\ (FLess(Zero, gap) \/ FLeq(FAbs(gap), FAbs(total)))
          THEN gapOf(line) = Zero
          ELSE gapOf(line) = FSub(gap, total)

(* A line of letters and white space stretched by a gap no priority        *)
(* covers: the space left over went to the white space.                    *)
C6_Witness ==
  /\ pc = "justifyDone" /\ options = DefaultOptions
  /\ gap = TenGap
  /\ Len(line.runs) = 2
  /\ \E k \in 1 .. Len(glyphsOf(line.runs)) : glyphsOf(line.runs)[k] = Space
  /\ \E k \in 1 .. Len(glyphsOf(line.runs)) : glyphsOf(line.runs)[k] = Letter
  /\ gapOf(line) = Zero

(* A line of one run of two words of letters with one white space between, *)
(* justified with the default factors for a gap of 10.                     *)
TwoWordLine ==
  /\ pc = "justifyDone" /\ options = DefaultOptions /\ gap = TenGap
  /\ Len(line.runs) = 1
  /\ LET glyphs == line.runs[1].glyphs
     IN  \E m \in 1 .. Len(glyphs) - 2 :
           \A k \in 1 .. Len(glyphs) : glyphs[k] = (IF k = m + 1 THEN Space ELSE Letter)

spaceAt == CHOOSE k \in 1 .. Len(line.runs[1].glyphs) : line.runs[1].glyphs[k] = Space

(* C7, as claimed: the xAdvance of the white space grows by 10, give or    *)
(* take 1, and the xAdvance of no letter changes.                          *)
C7_Original ==
  TwoWordLine =>
    /\ FLeq(Frac(9, 1), addedTo(spaceAt)) /\ FLeq(addedTo(spaceAt), Frac(11, 1))
    /\ \A k \in 1 .. Len(line.runs[1].glyphs) : k # spaceAt => addedTo(k) = Zero

(* C7, amended: the xAdvance of the white space grows by more than 0 and   *)
(* at most 5, the letter just before it grows by the same amount, every    *)
(* other letter but the last grows by less, the last glyph is unchanged,   *)
(* and the total xAdvance grows by 10.                                     *)
C7_TwoWords ==
  TwoWordLine =>
    LET last == Len(line.runs[1].glyphs)
    IN  /\ FLess(Zero, addedTo(spaceAt)) /\ FLeq(addedTo(spaceAt), Frac(5, 1))
        /\ addedTo(spaceAt - 1) = addedTo(spaceAt)
        /\ addedTo(last) = Zero
        /\ \A k \in 1 .. last - 1 :
             k \notin {spaceAt - 1, spaceAt} =>
               FLess(Zero, addedTo(k)) /\ FLess(addedTo(k), addedTo(spaceAt))
        /\ gapOf(line) = Zero

(* Two words long enough for the letters to cover what the white space     *)
(* leaves of the gap.                                                      *)
C7_Witness ==
  /\ TwoWordLine
  /\ Len(line.runs[1].glyphs) >= 34
  /\ addedTo(spaceAt) = addedTo(spaceAt - 1)

(* Two one-letter words: the white space takes what the letters leave.     *)
C7_WitnessShort ==
  /\ TwoWordLine
  /\ Len(line.runs[1].glyphs) = 3
  /\ addedTo(spaceAt) = Frac(5, 1)

----------------------------------------------------------------------------
(* finalizeLineFragment (LayoutEngine.js 271-319). A line fragment is      *)
(* [rect, runs, overflowLeft, overflowRight]; its glyphs are numbered      *)
(* from 0 over all its runs.                                               *)

ALIGNMENT_FACTORS ==
  [left |-> Zero, center |-> Frac(1, 2), right |-> One, justify |-> Zero]

(* Punctuation that hangs at the start and at the end of a line.           *)
OpenQuote == [isWhiteSpace |-> FALSE, isMark |-> FALSE, hanging |-> "start"]
Period == [isWhiteSpace |-> FALSE, isMark |-> FALSE, hanging |-> "end"]
FragGlyphKinds == {Letter, Space, OpenQuote, Period}

(* LineFragment: length, isWhiteSpace(i), getGlyphWidth(i),                *)
(* isHangingPunctuationStart(i), isHangingPunctuationEnd(i), advanceWidth. *)
(* The tests are false for an index that is no glyph of the line.          *)
lengthOf(ln) == Len(glyphsOf(ln.runs))
inLine(ln, i) == 0 <= i /\ i < lengthOf(ln)
isWhiteSpaceAt(ln, i) == inLine(ln, i) /\ glyphsOf(ln.runs)[i + 1].isWhiteSpace
getGlyphWidth(ln, i) == positionsOf(ln.runs)[i + 1].xAdvance
isHangingPunctuationStart(ln, i) ==
  inLine(ln, i) /\ glyphsOf(ln.runs)[i + 1].hanging = "start"
isHangingPunctuationEnd(ln, i) ==
  inLine(ln, i) /\ glyphsOf(ln.runs)[i + 1].hanging = "end"

(* truncationEngine.truncate(line, mode): the glyphs from..to-1 of the     *)
(* line (one run) are replaced by one ellipsis glyph; a line without       *)
(* glyphs is left as it is.                                                *)
truncate(ln, cut) ==
  IF cut.from = cut.to THEN ln
  ELSE LET glyphs == ln.runs[1].glyphs
           kept == SubSeq(glyphs, 1, cut.from) \o <<Letter>>
                     \o SubSeq(glyphs, cut.to + 1, Len(glyphs))
       IN  [ln EXCEPT !.runs = <<runOf(kept)>>]

Cuts(ln) ==
  IF lengthOf(ln) = 0 THEN {[from |-> 0, to |-> 0]}
  ELSE {[from |-> a, to |-> b] : a \in 0 .. lengthOf(ln) - 1, b \in 1 .. lengthOf(ln)}
         \ {c \in [from : 0 .. lengthOf(ln), to : 0 .. lengthOf(ln)] : c.from >= c.to}

(* Line 272.                                                               *)
alignOf(st, isLast, isTrunc) ==
  IF isLast /\ ~isTrunc THEN st.alignLastLine ELSE st.align

(* Lines 282-284: white space at the start of the line.                    *)
RECURSIVE trimStart(_, _, _)
trimStart(ln, start, overflowLeft) ==
  IF isWhiteSpaceAt(ln, start)
    THEN trimStart(ln, start + 1, FAdd(overflowLeft, getGlyphWidth(ln, start)))
    ELSE [start |-> start, overflowLeft |-> overflowLeft]

(* Lines 286-288: white space at the end of the line.                      *)
RECURSIVE trimEnd(_, _, _)
trimEnd(ln, end, overflowRight) ==
  IF isWhiteSpaceAt(ln, end - 1)
    THEN trimEnd(ln, end - 1, FAdd(overflowRight, getGlyphWidth(ln, end - 1)))
    ELSE [end |-> end, overflowRight |-> overflowRight]

(* Lines 278-303: the overflow of the line at both sides.                  *)
overflowOf(ln, st, align) ==
  LET left == trimStart(ln, 0, ln.overflowLeft)
      right == trimEnd(ln, lengthOf(ln), ln.overflowRight)
      hangLeft == /\ st.hangingPunctuation
                  /\ align \in {"left", "justify"}
                  /\ isHangingPunctuationStart(ln, left.start)
      hangRight == /\ st.hangingPunctuation
                   /\ align \in {"right", "justify"}
                   /\ isHangingPunctuationEnd(ln, right.end - 1)
  IN  [ln EXCEPT
         !.overflowLeft =
            IF hangLeft THEN FAdd(left.overflowLeft, getGlyphWidth(ln, left.start))
            ELSE left.overflowLeft,
         !.overflowRight =
            IF hangRight THEN FAdd(right.overflowRight, getGlyphWidth(ln, right.end - 1))
            ELSE right.overflowRight]

(* Lines 278-303: the locals start and end after the white space and the   *)
(* hanging punctuation have been taken off.                                *)
trimmedRange(ln, st, align) ==
  LET left == trimStart(ln, 0, ln.overflowLeft)
      right == trimEnd(ln, lengthOf(ln), ln.overflowRight)
      hangLeft == /\ st.hangingPunctuation
                  /\ align \in {"left", "justify"}
                  /\ isHangingPunctuationStart(ln, left.start)
      hangRight == /\ st.hangingPunctuation
                   /\ align \in {"right", "justify"}
                   /\ isHangingPunctuationEnd(ln, right.end - 1)
  IN  [start |-> IF hangLeft THEN left.start + 1 ELSE left.start,
       end |-> IF hangRight THEN right.end - 1 ELSE right.end]

(* The mutant of expandRect: the rectangle grows by the left overflow only.*)
expandRectLeftOnly(ln) ==
  [ln EXCEPT !.rect.x = FSub(ln.rect.x, ln.overflowLeft),
             !.rect.width = FAdd(ln.rect.width, ln.overflowLeft)]

(* Lines 305-306.                                                          *)
expandRect(ln) ==
  [ln EXCEPT !.rect.x = FSub(ln.rect.x, ln.overflowLeft),
             !.rect.width = FAdd(ln.rect.width, FAdd(ln.overflowLeft, ln.overflowRight))]

lineAdvanceWidth(ln) == advanceWidth([runs |-> ln.runs])

(* Lines 309-310.                                                          *)
alignRect(ln, align) ==
  [ln EXCEPT !.rect.x =
     FAdd(ln.rect.x,
          FMul(FSub(ln.rect.width, lineAdvanceWidth(ln)), ALIGNMENT_FACTORS[align]))]

(* Lines 312-316: justificationEngine.justify(line, {factor}).             *)
justify(ln, st) ==
  [ln EXCEPT !.runs =
     justification([factor |-> st.justificationFactor],
                   [box |-> ln.rect, runs |-> ln.runs]).line.runs]

finalizeLineFragment(ln, st, isLast, isTrunc, cut) ==
  LET align == alignOf(st, isLast, isTrunc)
      truncating == isLast /\ isTrunc /\ st.truncationMode # "null"
      truncated == IF truncating THEN truncate(ln, cut) ELSE ln
      expanded == expandRect(overflowOf(truncated, st, align))
      aligned == alignRect(expanded, align)
      justifying ==
        align = "justify" \/ FLess(aligned.rect.width, lineAdvanceWidth(aligned))
  IN  [line |-> IF justifying THEN justify(aligned, st) ELSE aligned,
       remainingWidth |-> FSub(expanded.rect.width, lineAdvanceWidth(expanded)),
       calls |-> (IF truncating THEN <<"truncate">> ELSE <<>>)
                   \o (IF justifying THEN <<"justify">> ELSE <<>>)
                   \o <<"decorate">>]

Aligns == {"left", "center", "right", "justify"}

Styles ==
  [align : Aligns, alignLastLine : {"left", "justify"},
   hangingPunctuation : BOOLEAN, truncationMode : {"null", "tail"},
   justificationFactor : {One}]

(* layoutParagraph, lines 331-338: the line fragment is created with a     *)
(* copy of the rectangle of its container and no overflow.                 *)
newLineFragment(box, glyphs) ==
  [rect |-> box, runs |-> <<runOf(glyphs)>>, overflowLeft |-> Zero, overflowRight |-> Zero]

InitFinalize ==
  /\ pc = "finalize"
  /\ container = [x |-> Frac(ColumnX, 1), y |-> Zero,
                  width |-> Frac(ColumnWidth, 1), height |-> Frac(GlyphAdvance, 1)]
  /\ \E glyphs \in SeqsUpTo(FragGlyphKinds, MaxFragGlyphs) :
       line = newLineFragment(container, glyphs)
  /\ style \in Styles
  /\ isLastFragment \in BOOLEAN
  /\ isTruncated \in BOOLEAN
  /\ remainingWidth = <<>>
  /\ calls = <<>>
  /\ options = <<>> /\ gap = <<>> /\ returned = "none"
  /\ IdleSplit /\ IdleGlyph /\ IdleTypesetter /\ IdleString /\ IdleRest

FinalizeLineFragment ==
  /\ pc = "finalize"
  /\ \E cut \in Cuts(line) :
       LET result == finalizeLineFragment(line, style, isLastFragment, isTruncated, cut)
       IN  /\ line' = result.line
           /\ remainingWidth' = result.remainingWidth
           /\ calls' = result.calls
  /\ pc' = "finalizeDone"
  /\ UNCHANGED <<container, style, isLastFragment, isTruncated,
                 options, gap, returned, splitVars, glyphVars, layoutVars, stringVars, restVars>>

NextFinalize == FinalizeLineFragment

SpecFinalize == InitFinalize /\ [][NextFinalize]_vars

rightEdge(rect) == FAdd(rect.x, rect.width)

(* C8, as claimed: for every alignment, after finalizeLineFragment         *)
(* rect.x + rect.width is the original rect.x + rect.width plus            *)
(* overflowRight.                                                          *)
C8_Original ==
  pc = "finalizeDone" =>
    rightEdge(line.rect) = FAdd(rightEdge(container), line.overflowRight)

(* C8, amended: after finalizeLineFragment rect.x + rect.width is the      *)
(* original rect.x + rect.width plus overflowRight plus the alignment      *)
(* offset (rect.width - advanceWidth) * factor[align]; the offset is 0,    *)
(* and the claimed equality holds, for the alignments left and justify.    *)
C8_TrimSymmetry ==
  pc = "finalizeDone" =>
    LET align == alignOf(style, isLastFragment, isTruncated)
    IN  /\ rightEdge(line.rect) =
             FAdd(FAdd(rightEdge(container), line.overflowRight),
                  FMul(remainingWidth, ALIGNMENT_FACTORS[align]))
        /\ align \in {"left", "justify"} =>
             rightEdge(line.rect) = FAdd(rightEdge(container), line.overflowRight)

(* A justified line that ends with white space: the rectangle grew to the  *)
(* right by the width of the white space.                                  *)
C8_Witness ==
  /\ pc = "finalizeDone"
  /\ alignOf(style, isLastFragment, isTruncated) = "justify"
  /\ FLess(Zero, line.overflowRight)
  /\ FLess(Zero, remainingWidth)
  /\ rightEdge(line.rect) = FAdd(rightEdge(container), line.overflowRight)

(* A right-aligned line shorter than its rectangle.                        *)
C8_WitnessRight ==
  /\ pc = "finalizeDone"
  /\ alignOf(style, isLastFragment, isTruncated) = "right"
  /\ FLess(Zero, remainingWidth)
  /\ rightEdge(line.rect) # FAdd(rightEdge(container), line.overflowRight)

(* C23, as claimed: finalizeLineFragment calls the truncation engine       *)
(* exactly when the line is truncated and style.truncationMode is set,     *)
(* whatever isLastFragment is, and then before every other engine.         *)
C23_Original ==
  pc = "finalizeDone" =>
    LET invoked == \E k \in 1 .. Len(calls) : calls[k] = "truncate"
    IN  /\ invoked <=> (isTruncated /\ style.truncationMode # "null")
        /\ invoked => calls[1] = "truncate"

(* The line as it was when its ends were trimmed: truncation is over and   *)
(* justification changes no glyph, only the advances.                      *)
lineToTrim == newLineFragment(container, glyphsOf(line.runs))

(* C27, as claimed: after trimming and hanging punctuation start <= end,   *)
(* and overflowLeft + overflowRight is at most the sum of the widths of    *)
(* the glyphs of the line.                                                 *)
C27_Original ==
  pc = "finalizeDone" =>
    LET range == trimmedRange(lineToTrim, style,
                              alignOf(style, isLastFragment, isTruncated))
    IN  /\ range.start <= range.end
        /\ FLeq(FAdd(line.overflowLeft, line.overflowRight),
                lineAdvanceWidth(lineToTrim))

----------------------------------------------------------------------------
(* applyDefaultStyles and preprocessRuns (LayoutEngine.js 30-97).          *)
(* An attributes object lives in heap at its address; a run is             *)
(* [start, end, attributes] with the address of its attributes object, so  *)
(* that two runs can share one object and a write to it shows in both.     *)
(* An attributes object gives every key a value, "undefined" for a key it  *)
(* does not have; the values are written as strings.                       *)

MaxStyleRuns == 2  \* most runs of the attributed string handed to layout

(* The keys applyDefaultStyles writes (lines 36-56).                       *)
CodeKeys ==
  {"color", "backgroundColor", "font", "fontSize", "lineHeight", "underline",
   "underlineColor", "underlineStyle", "strike", "strikeColor", "strikeStyle",
   "link", "fill", "stroke", "features", "wordSpacing", "yOffset",
   "characterSpacing", "attachment", "script", "bidiLevel"}

(* The other attribute keys of a run: alignment and paragraph style.       *)
ParagraphKeys ==
  {"align", "alignLastLine", "marginLeft", "marginRight", "indent", "maxLines",
   "lineSpacing", "paragraphSpacing", "hangingPunctuation", "truncationMode",
   "justificationFactor"}

Keys == CodeKeys \cup ParagraphKeys

(* The right-hand sides of || in lines 36-56.                              *)
DefaultValue ==
  [color |-> "black", backgroundColor |-> "null", font |-> "null", fontSize |-> "12",
   lineHeight |-> "null", underline |-> "false", underlineStyle |-> "solid",
   strike |-> "false", strikeStyle |-> "solid", link |-> "null", stroke |-> "false",
   features |-> "[]", wordSpacing |-> "0", yOffset |-> "0", characterSpacing |-> "0",
   attachment |-> "null", script |-> "null", bidiLevel |-> "null"]

(* a || b: b when a is falsy.                                              *)
Falsy == {"undefined", "null", "false", "0", ""}
or(a, b) == IF a \in Falsy THEN b ELSE a

(* Lines 35-57: the attributes object of a run of the result.              *)
defaulted(attributes) ==
  [k \in Keys |->
     IF k \in ParagraphKeys THEN "undefined"
     ELSE IF k = "fill" THEN (IF attributes[k] = "false" THEN "false" ELSE "true")
     ELSE IF k \in {"underlineColor", "strikeColor"}
       THEN or(attributes[k], or(attributes["color"], "black"))
     ELSE or(attributes[k], DefaultValue[k])]

runAt(start, end, address) == [start |-> start, end |-> end, attributes |-> address]

(* new AttributedString(string, runs).                                     *)
AttributedString(chars, runs) == [string |-> chars, runs |-> runs]

(* The defaults are written into the attributes objects of the argument.   *)
applyDefaultStylesInPlace(h, a) ==
  [heap |-> [i \in 1 .. Len(h) |->
               IF \E r \in 1 .. Len(a.runs) : a.runs[r].attributes = i
                 THEN defaulted(h[i]) ELSE h[i]],
   result |-> a]

(* Lines 30-64: every run of the result is a new object with a new         *)
(* attributes object.                                                      *)
applyDefaultStyles(h, a) ==
  [heap |-> h \o [i \in 1 .. Len(a.runs) |-> defaulted(h[a.runs[i].attributes])],
   result |-> AttributedString(a.string,
                [i \in 1 .. Len(a.runs) |->
                   runAt(a.runs[i].start, a.runs[i].end, Len(h) + i)])]

NoAttributes == [k \in Keys |-> "undefined"]
withoutFont(attributes) == [attributes EXCEPT !["font"] = "undefined"]
only(key, value) == [k \in Keys |-> IF k = key THEN value ELSE "undefined"]

(* fontSubstitutionEngine.getRuns(string, runs): a font for every run, the *)
(* font of the run when it has one.                                        *)
fontSubstitution(h, a) ==
  [i \in 1 .. Len(a.runs) |->
     [start |-> a.runs[i].start, end |-> a.runs[i].end,
      attributes |-> only("font", or(h[a.runs[i].attributes]["font"], "Fallback"))]]

(* scriptItemizer.getRuns(string): one script for the whole string.        *)
scriptItemization(a) ==
  IF a.string = <<>> THEN <<>>
  ELSE <<[start |-> 0, end |-> Len(a.string), attributes |-> only("script", "Latn")]>>

(* flattenRuns: at every position the attributes of all the runs that      *)
(* cover it, a later run overriding an earlier one; neighbours with equal  *)
(* attributes are one run.                                                 *)
RECURSIVE overlay(_, _, _)
overlay(runs, i, acc) ==
  IF runs = <<>> THEN acc
  ELSE LET run == Head(runs)
       IN  overlay(Tail(runs), i,
             IF run.start <= i /\ i < run.end
               THEN [k \in Keys |-> IF run.attributes[k] # "undefined"
                                      THEN run.attributes[k] ELSE acc[k]]
               ELSE acc)

flattenRuns(runs, length) ==
  LET at(i) == overlay(runs, i, NoAttributes)
      starts == {i \in 0 .. length - 1 : i = 0 \/ at(i) # at(i - 1)}
      nth(j) == CHOOSE x \in starts : Cardinality({y \in starts : y < x}) = j - 1
  IN  [j \in 1 .. Cardinality(starts) |->
         [start |-> nth(j),
          end |-> IF j = Cardinality(starts) THEN length ELSE nth(j + 1),
          attributes |-> at(nth(j))]]

(* Lines 66-81: the runs without their font, the font runs and the script  *)
(* runs are flattened into the runs of a new attributed string; the runs   *)
(* of the argument are read only.                                          *)
preprocessRuns(h, a) ==
  LET stringRuns ==
        [i \in 1 .. Len(a.runs) |->
           [start |-> a.runs[i].start, end |-> a.runs[i].end,
            attributes |-> withoutFont(h[a.runs[i].attributes])]]
      all == stringRuns \o fontSubstitution(h, a) \o scriptItemization(a)
      flat == flattenRuns(all, Len(a.string))
      h1 == h \o [i \in 1 .. Len(all) |-> all[i].attributes]
  IN  [heap |-> h1 \o [i \in 1 .. Len(flat) |-> flat[i].attributes],
       result |-> AttributedString(a.string,
                    [i \in 1 .. Len(flat) |->
                       runAt(flat[i].start, flat[i].end, Len(h1) + i)])]

(* The attributes a caller may give a run.                                 *)
supplied(key, value) == [NoAttributes EXCEPT ![key] = value]
InputAttributes ==
  {NoAttributes, supplied("color", "red"), supplied("fontSize", "18"),
   supplied("fontSize", "0"), supplied("fill", "false"), supplied("fill", "null"),
   supplied("underlineColor", "blue"), supplied("font", "Helvetica"),
   supplied("align", "center"), supplied("maxLines", "2")}

(* The runs [start, end) that cover 0 .. length - 1 from position from on, *)
(* at most most of them.                                                   *)
RECURSIVE Tilings(_, _, _)
Tilings(from, length, most) ==
  IF from = length THEN {<<>>}
  ELSE IF most = 0 THEN {}
  ELSE UNION {{<<[start |-> from, end |-> e]>> \o rest :
                 rest \in Tilings(e, length, most - 1)} : e \in from + 1 .. length}

----------------------------------------------------------------------------
(* resolveColumns, layoutParagraph, typesetter and LayoutEngine.layout     *)
(* (LayoutEngine.js 256-269 and 321-399). A paragraph is known by its      *)
(* position in the result of splitParagraphs; calls records the line       *)
(* breaker being asked, the line fragments and the blocks constructed.     *)

FMax(x, y) == IF FLess(x, y) THEN y ELSE x

Rect(x, y, width, height) == [x |-> x, y |-> y, width |-> width, height |-> height]

(* Lines 256-269.                                                          *)
resolveColumns(c) ==
  IF c.columns = 0 THEN <<>>
  ELSE LET columnWidth ==
             FDiv(FSub(c.bbox.width, FMul(c.columnGap, Frac(c.columns - 1, 1))),
                  Frac(c.columns, 1))
       IN  [index \in 1 .. c.columns |->
              Rect(FAdd(c.bbox.minX,
                        FMul(Frac(index - 1, 1), FAdd(columnWidth, c.columnGap))),
                   c.bbox.minY, columnWidth, c.bbox.height)]

(* new ParagraphStyle(), line 323: no attributes are handed over.          *)
ParagraphStyle == [lineHeight |-> Zero]

(* lineBreaker.suggestLineBreak: the lines it may return for a paragraph.  *)
LineBreaks ==
  SeqsUpTo({[height |-> Frac(LineHeight, 1), glyphs |-> <<Letter>>]}, MaxLines)

(* Line 332.                                                               *)
lineHeightOf(glyphString, st) == FMax(glyphString.height, st.lineHeight)

(* Lines 329-339: one line fragment per line, each below the one before.   *)
lineFragmentsOf(lines, rect, st) ==
  [i \in 1 .. Len(lines) |->
     LET above == [k \in 1 .. i - 1 |-> lineHeightOf(lines[k], st)]
         lineBox == [rect EXCEPT !.y = FAdd(rect.y, FSum(above)),
                                 !.height = lineHeightOf(lines[i], st)]
     IN  newLineFragment(lineBox, lines[i].glyphs)]

(* new Block(lineFragments), line 345; its height is the height of its     *)
(* line fragments.                                                         *)
Block(p, lineFragments) ==
  [paragraph |-> p, lineFragments |-> lineFragments,
   height |-> FSum([i \in 1 .. Len(lineFragments) |-> lineFragments[i].rect.height])]

event(op, p, i, c) == [op |-> op, paragraph |-> p, fragment |-> i, container |-> c]

(* Lines 321-346: what layoutParagraph calls, in order. The call of        *)
(* finalizeLineFragment for each line fragment (lines 341-343) is in a     *)
(* comment.                                                                *)
layoutParagraphCalls(p, lines, c) ==
  <<event("suggestLineBreak", p, 0, c)>>
    \o [i \in 1 .. Len(lines) |-> event("LineFragment", p, i, c)]
    \o <<event("Block", p, 0, c)>>

layoutParagraph(p, lines, rect) ==
  Block(p, lineFragmentsOf(lines, rect, ParagraphStyle))

(* The mutant of shifted: the last paragraph is taken, not the first.      *)
shiftedLast(ps) == IF ps = <<>> THEN undefined ELSE ps[Len(ps)]

(* paragraphs.shift(), lines 353 and 361.                                  *)
shifted(ps) == IF ps = <<>> THEN undefined ELSE Head(ps)
afterShift(ps) == IF ps = <<>> THEN <<>> ELSE Tail(ps)

Containers ==
  {[bbox |-> [minX |-> Frac(ColumnX, 1), minY |-> Zero,
              width |-> Frac(ColumnWidth, 1), height |-> Frac(PageHeight, 1)],
    columns |-> n, columnGap |-> Frac(ColumnGap, 1), blocks |-> <<>>] :
     n \in 0 .. MaxColumns}

(* The attributes a caller gives the runs of the string handed to layout.  *)
LayoutAttributes == {NoAttributes, supplied("align", "center")}

InitLayout ==
  /\ pc = "layout"
  /\ string \in SeqsUpTo({"a", LF}, MaxLen)
  /\ res = <<>>
  /\ containers \in SeqsUpTo(Containers, MaxContainers)
  /\ paragraphs = <<>> /\ columns = <<>>
  /\ containerIndex = 0 /\ columnIndex = 0
  /\ paragraphRect = <<>> /\ nextParagraph = undefined /\ block = <<>>
  /\ calls = <<>>
  /\ container = <<>> /\ style = <<>> /\ isLastFragment = FALSE /\ isTruncated = FALSE
  /\ remainingWidth = <<>>
  /\ \E tiling \in Tilings(0, Len(string), MaxStyleRuns) :
       /\ heap \in [1 .. Len(tiling) -> LayoutAttributes]
       /\ attributedString =
            AttributedString(string,
              [i \in 1 .. Len(tiling) |-> runAt(tiling[i].start, tiling[i].end, i)])
  /\ output = <<>>
  /\ IdleGlyph /\ IdleJust /\ IdleRest

(* The caller's attributes of the first run of paragraph p: the run that   *)
(* holds the first character of the paragraph.                             *)
firstRunAttributes(p) ==
  LET start == Len(Concat(SubSeq(res, 1, p - 1)))
      run == CHOOSE r \in 1 .. Len(attributedString.runs) :
               /\ attributedString.runs[r].start <= start
               /\ start < attributedString.runs[r].end
  IN  heap[attributedString.runs[run].attributes]

idleInLayout ==
  <<glyphVars, justVars, container, isLastFragment, isTruncated, remainingWidth,
    restVars>>

(* The passes swapped: the y-offsets are resolved before the attachments.   *)
passesSwapped == <<"wrapWords", "generateGlyphs", "resolveYOffset", "resolveAttachments">>

(* Lines 387-390: the passes mapped over the paragraphs; compose applies   *)
(* them from the last argument to the first.                               *)
passes == <<"wrapWords", "generateGlyphs", "resolveAttachments", "resolveYOffset">>

(* Lines 26-28: map(fn) runs a pass over every paragraph before compose    *)
(* hands the array to the next pass.                                       *)
passCalls(n) ==
  [m \in 1 .. Len(passes) * n |->
     event(passes[((m - 1) \div n) + 1], ((m - 1) % n) + 1, 0, 0)]

(* Lines 380-394 and 349: the passes before the typesetter, one paragraph  *)
(* of glyphs per paragraph of splitParagraphs.                             *)
Layout ==
  /\ pc = "layout"
  /\ res' = splitParagraphs(string)
  /\ calls' = calls \o passCalls(Len(res'))
  /\ paragraphs' = [i \in 1 .. Len(res') |-> i]
  /\ pc' = "containers"
  /\ UNCHANGED <<string, containers, columns, containerIndex, columnIndex,
                 paragraphRect, nextParagraph, block, style, stringVars,
                 idleInLayout>>

(* Lines 365-370 and 372: the next container, and its columns.             *)
LayoutContainer ==
  /\ pc = "containers"
  /\ containerIndex < Len(containers)
  /\ columns' = resolveColumns(containers[containerIndex + 1])
  /\ containerIndex' = containerIndex + 1
  /\ columnIndex' = 0
  /\ pc' = "columns"
  /\ UNCHANGED <<splitVars, calls, containers, paragraphs, paragraphRect,
                 nextParagraph, block, style, stringVars,
                 idleInLayout>>

(* Lines 351-353: the next column of the container.                        *)
LayoutColumn ==
  /\ pc = "columns"
  /\ columnIndex < Len(columns)
  /\ paragraphRect' = columns[columnIndex + 1]
  /\ nextParagraph' = shifted(paragraphs)
  /\ paragraphs' = afterShift(paragraphs)
  /\ columnIndex' = columnIndex + 1
  /\ pc' = "paragraph"
  /\ UNCHANGED <<splitVars, calls, containers, columns, containerIndex, block,
                 style, stringVars,
                 idleInLayout>>

(* The mutant of advance: the rectangle moves down and keeps its height.   *)
advanceYOnly(rect, blk) == [rect EXCEPT !.y = FAdd(rect.y, blk.height)]

(* Lines 358-360: a copy of the rectangle, moved to below the block.       *)
advance(rect, blk) ==
  [rect EXCEPT !.y = FAdd(rect.y, blk.height), !.height = FSub(rect.height, blk.height)]

(* Lines 355-362: one turn of the loop. The block is not pushed on         *)
(* container.blocks: line 357 is in a comment.                             *)
LayoutParagraph ==
  /\ pc = "paragraph"
  /\ nextParagraph # undefined
  /\ \E lines \in LineBreaks :
       /\ block' = layoutParagraph(nextParagraph, lines, paragraphRect)
       /\ calls' = calls \o layoutParagraphCalls(nextParagraph, lines, containerIndex)
  /\ style' = ParagraphStyle
  /\ paragraphRect' = advance(paragraphRect, block')
  /\ nextParagraph' = shifted(paragraphs)
  /\ paragraphs' = afterShift(paragraphs)
  /\ UNCHANGED <<pc, splitVars, containers, columns, containerIndex, columnIndex,
                 stringVars, idleInLayout>>

(* Line 355: no paragraph is left, the column is done.                     *)
ColumnDone ==
  /\ pc = "paragraph"
  /\ nextParagraph = undefined
  /\ pc' = "columns"
  /\ UNCHANGED <<splitVars, calls, layoutVars, style, stringVars,
                 idleInLayout>>

(* Lines 366-369: every column of the container is done.                   *)
ContainerDone ==
  /\ pc = "columns"
  /\ columnIndex = Len(columns)
  /\ pc' = "containers"
  /\ UNCHANGED <<splitVars, calls, layoutVars, style, stringVars,
                 idleInLayout>>

(* Lines 372 and 394: every container is done, layout returns.             *)
LayoutReturn ==
  /\ pc = "containers"
  /\ containerIndex = Len(containers)
  /\ pc' = "layoutDone"
  /\ UNCHANGED <<splitVars, calls, layoutVars, style, stringVars,
                 idleInLayout>>

NextLayout ==
  \/ Layout
  \/ LayoutContainer
  \/ LayoutColumn
  \/ LayoutParagraph
  \/ ColumnDone
  \/ ContainerDone
  \/ LayoutReturn

SpecLayout == InitLayout /\ [][NextLayout]_vars

(* The paragraphs laid out in container c, in the order of their blocks.   *)
laidOutIn(c) ==
  LET blocks == SelectSeq(calls, LAMBDA e : e.op = "Block" /\ e.container = c)
  IN  [i \in 1 .. Len(blocks) |-> blocks[i].paragraph]

paragraphsOf(blocks) == [i \in 1 .. Len(blocks) |-> blocks[i].paragraph]

(* C9, as claimed: when layout has returned, the blocks list of every      *)
(* container holds one Block per paragraph laid out in it, in paragraph    *)
(* order.                                                                  *)
C9_Original ==
  pc = "layoutDone" =>
    \A c \in 1 .. Len(containers) : paragraphsOf(containers[c].blocks) = laidOutIn(c)

(* C10, as claimed: when a Block is constructed, every line fragment of    *)
(* its paragraph has been passed through finalizeLineFragment exactly      *)
(* once, after its creation.                                               *)
C10_Original ==
  \A k \in 1 .. Len(calls) :
    calls[k].op = "Block" =>
      \A j \in 1 .. k - 1 :
        (calls[j].op = "LineFragment" /\ calls[j].paragraph = calls[k].paragraph) =>
          Cardinality({m \in j + 1 .. k - 1 :
                         calls[m] = [calls[j] EXCEPT !.op = "finalizeLineFragment"]}) = 1

(* The positions in calls of the calls of op for paragraph p.              *)
callsOf(op, p) == {k \in 1 .. Len(calls) : calls[k].op = op /\ calls[k].paragraph = p}

(* C11: for every paragraph, its attachments are resolved once and before  *)
(* its y-offsets, which are resolved once and before the line breaker is   *)
(* asked to break it, and none of its lines is justified before that; each *)
(* pass on a paragraph is one entry of calls, so no two are interleaved.   *)
C11_PassOrder ==
  \A p \in 1 .. Len(res) :
    /\ Cardinality(callsOf("resolveAttachments", p)) <= 1
    /\ Cardinality(callsOf("resolveYOffset", p)) <= 1
    /\ \A j \in callsOf("resolveYOffset", p) :
         \E i \in callsOf("resolveAttachments", p) : i < j
    /\ \A k \in callsOf("suggestLineBreak", p) :
         \E j \in callsOf("resolveYOffset", p) : j < k
    /\ \A m \in callsOf("justify", p) :
         \E k \in callsOf("suggestLineBreak", p) : k < m

(* Two paragraphs have gone through the passes and the line breaker.       *)
C11_Witness ==
  /\ pc = "layoutDone"
  /\ Len(res) >= 2
  /\ \A p \in 1 .. Len(res) :
       /\ callsOf("resolveAttachments", p) # {}
       /\ callsOf("suggestLineBreak", p) # {}

----------------------------------------------------------------------------
(* The default-style and run-preprocessing passes on their own.            *)

InitStyles ==
  /\ pc = "styles"
  /\ \E length \in 0 .. MaxLen :
       \E tiling \in Tilings(0, length, MaxStyleRuns) :
         /\ heap \in [1 .. Len(tiling) -> InputAttributes]
         /\ attributedString =
              AttributedString([i \in 1 .. length |-> "a"],
                [i \in 1 .. Len(tiling) |-> runAt(tiling[i].start, tiling[i].end, i)])
  /\ output = <<>>
  /\ IdleSplit /\ IdleGlyph /\ IdleJust /\ IdleFin /\ IdleTypesetter /\ IdleRest

idleInStyles == <<splitVars, glyphVars, justVars, finVars, layoutVars, restVars>>

ApplyDefaultStyles ==
  /\ pc = "styles"
  /\ LET r == applyDefaultStyles(heap, attributedString)
     IN  heap' = r.heap /\ output' = r.result
  /\ pc' = "styled"
  /\ UNCHANGED <<attributedString, idleInStyles>>

PreprocessRuns ==
  /\ pc = "styled"
  /\ LET r == preprocessRuns(heap, output)
     IN  heap' = r.heap /\ output' = r.result
  /\ pc' = "preprocessed"
  /\ UNCHANGED <<attributedString, idleInStyles>>

NextStyles == ApplyDefaultStyles \/ PreprocessRuns

SpecStyles == InitStyles /\ [][NextStyles]_vars

(* The attributes objects of the caller's runs.                            *)
inputAttributes ==
  [i \in 1 .. Len(attributedString.runs) |-> heap[attributedString.runs[i].attributes]]

(* C12: no step of the default-style and run-preprocessing passes changes  *)
(* the caller's attributed string: its string, its runs with their start   *)
(* and end, and the attributes object of every run, font included.         *)
C12_InputUnchanged ==
  [][attributedString' = attributedString /\ inputAttributes' = inputAttributes]_vars

(* Both passes have run on two runs, one of which came with a font, and    *)
(* the result has attributes the caller's runs do not have.                *)
C12_Witness ==
  /\ pc = "preprocessed"
  /\ Len(attributedString.runs) = 2
  /\ \E i \in 1 .. 2 : inputAttributes[i]["font"] = "Helvetica"
  /\ \E i \in 1 .. Len(output.runs) : heap[output.runs[i].attributes]["script"] = "Latn"
  /\ \A i \in 1 .. 2 : inputAttributes[i]["script"] = "undefined"

(* C15, as claimed: applyDefaultStyles returns a new attributed string     *)
(* with the same string and runs with the same start and end, and every    *)
(* key of the attributes of a run has the caller's value when the caller   *)
(* gave one and a default otherwise.                                       *)
C15_Original ==
  pc = "styled" =>
    /\ output.string = attributedString.string
    /\ Len(output.runs) = Len(attributedString.runs)
    /\ \A i \in 1 .. Len(output.runs) :
         /\ output.runs[i].start = attributedString.runs[i].start
         /\ output.runs[i].end = attributedString.runs[i].end
         /\ output.runs[i].attributes # attributedString.runs[i].attributes
         /\ \A k \in Keys :
              IF inputAttributes[i][k] # "undefined"
                THEN heap[output.runs[i].attributes][k] = inputAttributes[i][k]
                ELSE heap[output.runs[i].attributes][k] # "undefined"

(* C13, as claimed: justification(options)(line) returns the line for      *)
(* every line, also when the gap is exactly 0, and in that case no         *)
(* xAdvance is changed.                                                    *)
C13_Original ==
  pc = "justifyDone" =>
    /\ returned = "line"
    /\ gap = Zero => \A k \in 1 .. Len(positionsOf(line.runs)) : addedTo(k) = Zero

----------------------------------------------------------------------------
(* wrapWords (LayoutEngine.js 121-145).                                    *)

MaxWrapLen == 4    \* longest string of a paragraph handed to wrapWords

(* The pieces without the spaces between them: split(/[ ]+/g).             *)
RECURSIVE splitWithoutSpaces(_, _, _, _)
splitWithoutSpaces(s, i, piece, out) ==
  IF i > Len(s) THEN Append(out, piece)
  ELSE IF s[i] = " "
    THEN LET after == CHOOSE j \in i + 1 .. Len(s) + 1 :
                        /\ \A k \in i .. j - 1 : s[k] = " "
                        /\ j <= Len(s) => s[j] # " "
         IN  splitWithoutSpaces(s, after, <<>>, Append(out, piece))
    ELSE splitWithoutSpaces(s, i + 1, Append(piece, s[i]), out)

(* String.prototype.split(/([ ]+)/g), line 130: the pieces between the     *)
(* groups of spaces and, for the capturing parentheses, the groups of      *)
(* spaces themselves; a piece is empty where the string starts or ends     *)
(* with a space.                                                           *)
RECURSIVE split(_, _, _, _)
split(s, i, piece, out) ==
  IF i > Len(s) THEN Append(out, piece)
  ELSE IF s[i] = " "
    THEN LET after == CHOOSE j \in i + 1 .. Len(s) + 1 :
                        /\ \A k \in i .. j - 1 : s[k] = " "
                        /\ j <= Len(s) => s[j] # " "
         IN  split(s, after, <<>>, out \o <<piece, SubSeq(s, i, after - 1)>>)
    ELSE split(s, i + 1, Append(piece, s[i]), out)

(* Lines 128-131: .filter(Boolean) drops the empty pieces.                 *)
tokensOf(s) == SelectSeq(split(s, 1, <<>>, <<>>), LAMBDA token : token # <<>>)

(* wordHyphenation.hyphenateWord(token): the token in syllables of at most *)
(* size characters, whose concatenation is the token.                      *)
hyphenateWord(token, size) ==
  [j \in 1 .. (Len(token) + size - 1) \div size |->
     SubSeq(token, (j - 1) * size + 1,
            IF j * size < Len(token) THEN j * size ELSE Len(token))]

(* Lines 133-137: the syllables of the tokens of a run, in order.          *)
partsOf(a, run, size) ==
  LET tokens == tokensOf(slice(a.string, run.start, run.end))
  IN  Concat([t \in 1 .. Len(tokens) |-> hyphenateWord(tokens[t], size)])

(* AttributedString.fromFragments: the strings are concatenated and every  *)
(* fragment is a run over its part of the string.                          *)
fromFragments(fragments) ==
  LET startOf(i) == Len(Concat([k \in 1 .. i - 1 |-> fragments[k].string]))
  IN  AttributedString(
        Concat([k \in 1 .. Len(fragments) |-> fragments[k].string]),
        [i \in 1 .. Len(fragments) |->
           runAt(startOf(i), startOf(i) + Len(fragments[i].string),
                 fragments[i].attributes)])

(* Lines 121-145.                                                          *)
wrapWords(a, size) ==
  LET fragments ==
        [i \in 1 .. Len(a.runs) |->
           [string |-> Concat(partsOf(a, a.runs[i], size)),
            attributes |-> a.runs[i].attributes]]
  IN  [attributedString |-> fromFragments(fragments),
       syllables |-> Concat([i \in 1 .. Len(a.runs) |-> partsOf(a, a.runs[i], size)])]

InitWrap ==
  /\ pc = "wrap"
  /\ \E chars \in SeqsUpTo({"a", " ", LF}, MaxWrapLen) :
       \E tiling \in Tilings(0, Len(chars), MaxStyleRuns) :
         /\ heap = [i \in 1 .. Len(tiling) |->
                      IF i % 2 = 1 THEN supplied("color", "red") ELSE NoAttributes]
         /\ attributedString =
              AttributedString(chars,
                [i \in 1 .. Len(tiling) |-> runAt(tiling[i].start, tiling[i].end, i)])
  /\ output = <<>>
  /\ IdleSplit /\ IdleGlyph /\ IdleJust /\ IdleFin /\ IdleTypesetter /\ IdleRest

WrapWords ==
  /\ pc = "wrap"
  /\ \E size \in 1 .. MaxWrapLen : output' = wrapWords(attributedString, size)
  /\ pc' = "wrapped"
  /\ UNCHANGED <<heap, attributedString, idleInStyles>>

NextWrap == WrapWords

SpecWrap == InitWrap /\ [][NextWrap]_vars

(* C14: with a hyphenation oracle whose syllables concatenate to the       *)
(* token, wrapWords returns an attributed string with the string of the    *)
(* paragraph and runs of the same lengths and attributes, and the          *)
(* syllables concatenate to that string.                                   *)
C14_WrapWords ==
  pc = "wrapped" =>
    /\ output.attributedString.string = attributedString.string
    /\ Len(output.attributedString.runs) = Len(attributedString.runs)
    /\ \A i \in 1 .. Len(attributedString.runs) :
         LET new == output.attributedString.runs[i]
             old == attributedString.runs[i]
         IN  /\ new.end - new.start = old.end - old.start
             /\ new.attributes = old.attributes
    /\ Concat(output.syllables) = attributedString.string

(* Two words and the space between them in two runs, the first word in     *)
(* two syllables.                                                          *)
C14_Witness ==
  /\ pc = "wrapped"
  /\ attributedString.string = <<"a", "a", " ", "a">>
  /\ Len(attributedString.runs) = 2
  /\ output.syllables = <<<<"a">>, <<"a">>, <<" ">>, <<"a">>>>

(* The reference reconciliation of a character offset i: the first glyph   *)
(* whose string index is at least i; without one, the value of the nearest *)
(* offset that has one, to the left first.                                 *)
hasGlyph(i) == \E j \in 0 .. Len(stringIndices) - 1 : stringIndices[j + 1] >= i
firstGlyph(i) ==
  CHOOSE j \in 0 .. Len(stringIndices) - 1 :
    /\ stringIndices[j + 1] >= i
    /\ \A k \in 0 .. j - 1 : stringIndices[k + 1] < i
reference(i) ==
  LET left == {k \in 0 .. i - 1 : hasGlyph(k)}
      right == {k \in i + 1 .. Len(str) - 1 : hasGlyph(k)}
  IN  IF hasGlyph(i) THEN firstGlyph(i)
      ELSE IF left # {} THEN firstGlyph(CHOOSE k \in left : \A m \in left : m <= k)
      ELSE IF right # {} THEN firstGlyph(CHOOSE k \in right : \A m \in right : k <= m)
      ELSE undefined

(* C16: for a non-empty stringIndices array, monotone or not, the result   *)
(* of resolveGlyphIndices is the reference reconciliation.                 *)
C16_Reference ==
  pc = "glyphDone" /\ stringIndices # <<>> =>
    glyphIndices = [i \in 1 .. Len(str) |-> reference(i - 1)]

(* A cluster in the middle and a tail without a glyph: the second          *)
(* character takes the glyph of the third, the fourth the last glyph.      *)
C16_Witness ==
  /\ pc = "glyphDone"
  /\ Len(str) = 4
  /\ stringIndices = <<0, 2>>
  /\ glyphIndices = <<0, 1, 1, 1>>

(* The factors assign was handed for the line, and the lowest-numbered     *)
(* priority whose factors do not sum to 0, or -1.                          *)
factorsOfLine == getFactors(gap, line, options)
firstPriority ==
  LET nonZero == {p \in Priorities : sumAt(factorsOfLine, p, FALSE) # Zero}
  IN  IF nonZero = {} THEN 0 - 1 ELSE CHOOSE p \in nonZero : \A q \in nonZero : p <= q

(* The gap is not 0 and the first priority with a non-zero sum covers it.  *)
coveredByFirst ==
  /\ pc = "justifyDone" /\ gap # Zero
  /\ firstPriority # 0 - 1
  /\ FLeq(FAbs(gap), FAbs(sumAt(factorsOfLine, firstPriority, FALSE)))

(* The share of priority p in the distance of glyph k at scale 1.          *)
shareAt(p, k) ==
  FAdd(IF factorsOfLine[k].priority = p THEN factorsOfLine[k].after ELSE Zero,
       IF k < Len(factorsOfLine) /\ factorsOfLine[k + 1].priority = p
         THEN factorsOfLine[k + 1].before ELSE Zero)

(* A mark has taken the factor of a white-space glyph before it.           *)
markOnWhiteSpace ==
  \E k \in 1 .. Len(factorsOfLine) :
    glyphsOf(line.runs)[k].isMark /\ factorsOfLine[k].priority = WHITESPACE_PRIORITY

(* C17, amended: when the first priority p with a non-zero sum covers the  *)
(* gap, the distance of every glyph is its share of priority p at scale    *)
(* gap / sum_p, so it is non-zero only if the glyph or the next glyph has  *)
(* priority p; when p is the white-space priority and no mark has taken    *)
(* the factor of a white-space glyph, only white-space glyphs and the      *)
(* glyphs immediately before them change.                                  *)
C17_FirstPriority ==
  coveredByFirst =>
    \A k \in 1 .. Len(factorsOfLine) :
      /\ addedTo(k) =
           FMul(shareAt(firstPriority, k),
                FDiv(gap, sumAt(factorsOfLine, firstPriority, FALSE)))
      /\ addedTo(k) # Zero =>
           \/ factorsOfLine[k].priority = firstPriority
           \/ k < Len(factorsOfLine) /\ factorsOfLine[k + 1].priority = firstPriority
      /\ (firstPriority = WHITESPACE_PRIORITY /\ ~markOnWhiteSpace /\ addedTo(k) # Zero) =>
           \/ glyphsOf(line.runs)[k].isWhiteSpace
           \/ k < Len(factorsOfLine) /\ glyphsOf(line.runs)[k + 1].isWhiteSpace

(* C17, the example as claimed: when white space covers the whole gap,     *)
(* only white-space glyphs and the glyphs immediately before them change.  *)
C17_Original ==
  coveredByFirst /\ firstPriority = WHITESPACE_PRIORITY =>
    \A k \in 1 .. Len(factorsOfLine) :
      addedTo(k) # Zero =>
        \/ glyphsOf(line.runs)[k].isWhiteSpace
        \/ k < Len(factorsOfLine) /\ glyphsOf(line.runs)[k + 1].isWhiteSpace

(* A space between two letters covers a gap of 1: the first letter and the *)
(* space grow by 1/2 each, the last letter does not change.                *)
C17_Witness ==
  /\ coveredByFirst /\ firstPriority = WHITESPACE_PRIORITY
  /\ glyphsOf(line.runs) = <<Letter, Space, Letter>>
  /\ gap = One
  /\ addedTo(1) = Frac(1, 2) /\ addedTo(2) = Frac(1, 2) /\ addedTo(3) = Zero

(* The sum of the distances assign returned.                               *)
addedTotal == FSum([k \in 1 .. Len(positionsOf(line.runs)) |-> addedTo(k)])

(* Slack remains after every priority was applied at scale 1: the gap is   *)
(* larger than the sum of all factors (no factor being unconstrained).     *)
slackRemains ==
  /\ pc = "justifyDone" /\ options = DefaultOptions /\ gap # Zero
  /\ firstPriority # 0 - 1
  /\ FLess(FAbs(totalOf(factorsOfLine)), FAbs(gap))

(* The distance of glyph k with the first priority at the given scale and  *)
(* every other priority at scale 1.                                        *)
distanceAt(scale, k) ==
  FAdd(FMul(shareAt(firstPriority, k), scale),
       FSum([q \in 1 .. NULL_PRIORITY + 1 |->
               IF q - 1 = firstPriority THEN Zero ELSE shareAt(q - 1, k)]))

(* C18, as claimed: whenever slack remains, for a positive and for a       *)
(* negative gap alike, the distances sum to the whole gap.                 *)
C18_Original == slackRemains => addedTotal = gap

(* C18, amended: when slack remains and the gap is positive, the first     *)
(* priority with a non-zero sum is overdriven and the distances sum to the *)
(* whole gap; when the gap is negative, nothing is overdriven: every       *)
(* priority is applied at scale 1 and the distances sum to the sum of all  *)
(* factors.                                                                *)
C18_Overdrive ==
  slackRemains =>
    LET first == sumAt(factorsOfLine, firstPriority, FALSE)
        total == totalOf(factorsOfLine)
    IN  IF FLess(Zero, gap)
          THEN /\ addedTotal = gap
               /\ \A k \in 1 .. Len(factorsOfLine) :
                    addedTo(k) = distanceAt(FDiv(FAdd(first, FSub(gap, total)), first), k)
          ELSE /\ addedTotal = total
               /\ \A k \in 1 .. Len(factorsOfLine) : addedTo(k) = distanceAt(One, k)

(* A line that cannot shrink by 2: letter, space, letter shrink by the sum *)
(* of their factors only.                                                  *)
C18_Witness ==
  /\ slackRemains
  /\ gap = Frac(0 - 2, 1)
  /\ glyphsOf(line.runs) = <<Letter, Space, Letter>>
  /\ addedTotal = totalOf(factorsOfLine)
  /\ addedTotal # gap

(* The same line in a box wider by 10: the white space is overdriven.      *)
C18_WitnessGrow ==
  /\ slackRemains
  /\ gap = TenGap
  /\ glyphsOf(line.runs) = <<Letter, Space, Letter>>
  /\ addedTotal = gap

(* Glyph k of the line is the first glyph of its run.                      *)
firstOfRun(k) == \E r \in 1 .. Len(line.runs) : glyphsBefore(line.runs, r) = k - 1

(* C19, as claimed: every mark with a glyph before it on the line, in the  *)
(* same run or not, has the priority of that glyph and before = 0, the     *)
(* after of that glyph is 0, and justification adds 0 to the xAdvance of   *)
(* that glyph.                                                             *)
C19_Original ==
  pc = "justifyDone" /\ gap # Zero =>
    \A k \in 2 .. Len(factorsOfLine) :
      glyphsOf(line.runs)[k].isMark =>
        /\ factorsOfLine[k].priority = factorsOfLine[k - 1].priority
        /\ factorsOfLine[k].before = Zero
        /\ factorsOfLine[k - 1].after = Zero
        /\ addedTo(k - 1) = Zero

(* The same for the marks that are not the first glyph of their run.       *)
C19_SameRun ==
  pc = "justifyDone" /\ gap # Zero =>
    \A k \in 2 .. Len(factorsOfLine) :
      glyphsOf(line.runs)[k].isMark /\ ~firstOfRun(k) =>
        /\ factorsOfLine[k].priority = factorsOfLine[k - 1].priority
        /\ factorsOfLine[k].before = Zero
        /\ factorsOfLine[k - 1].after = Zero
        /\ addedTo(k - 1) = Zero

(* The block of the last paragraph laid out in the current column did not  *)
(* fit in the height that was left of the column.                          *)
didNotFit == pc = "paragraph" /\ FLess(paragraphRect.height, Zero)

(* C20, as claimed: once the block of a paragraph did not fit in the       *)
(* remaining height of the column, no further paragraph is laid out in     *)
(* that column.                                                            *)
C20_Original == [][didNotFit => calls' = calls]_vars

----------------------------------------------------------------------------
(* The lines of a column (LayoutEngine.js 321-363).                        *)

maxY(rect) == FAdd(rect.y, rect.height)

(* The column layoutColumn is working on.                                  *)
column == columns[columnIndex]

(* C21, as claimed: every line fragment layoutParagraph creates has its    *)
(* rect.y strictly less than the maxY of the column it is laid out in.     *)
C21_Original ==
  [][block' # block =>
       \A i \in 1 .. Len(block'.lineFragments) :
         FLess(block'.lineFragments[i].rect.y, maxY(column))]_vars

(* C28: while layoutColumn drains paragraphs, paragraphRect keeps the x    *)
(* and the width of the column and its y + height stays the y + height of  *)
(* the column; each paragraph moves y down and shrinks height by the       *)
(* height of its block; the rectangles of the columns are not modified.    *)
C28_ParagraphRect ==
  [][/\ pc' = "paragraph" =>
          /\ paragraphRect'.x = column'.x
          /\ paragraphRect'.width = column'.width
          /\ maxY(paragraphRect') = maxY(column')
          /\ columns' = resolveColumns(containers[containerIndex'])
     /\ block' # block =>
          /\ paragraphRect'.y = FAdd(paragraphRect.y, block'.height)
          /\ paragraphRect'.height = FSub(paragraphRect.height, block'.height)
          /\ columns' = columns]_vars

(* Two paragraphs with lines have been laid out in the first of the two    *)
(* columns of a container, and the rectangle has gone below the column.    *)
C28_Witness ==
  /\ pc = "paragraph"
  /\ Len(columns) = 2 /\ columnIndex = 1
  /\ block # <<>> /\ block.paragraph = 2
  /\ FLess(Zero, block.height)
  /\ FLess(column.y, paragraphRect.y)
  /\ FLess(paragraphRect.height, Zero)
  /\ maxY(paragraphRect) = maxY(column)

(* layout is synchronous: a step that can be taken is taken.               *)
SpecLayoutFair == InitLayout /\ [][NextLayout]_vars /\ WF_vars(NextLayout)

(* The paragraphs handed to layoutParagraph so far, in the order of the    *)
(* calls.                                                                  *)
laidOut ==
  LET asked == SelectSeq(calls, LAMBDA e : e.op = "suggestLineBreak")
  IN  [i \in 1 .. Len(asked) |-> asked[i].paragraph]

someColumn == \E c \in 1 .. Len(containers) : containers[c].columns >= 1

(* C25: the paragraphs handed to layoutParagraph are the first paragraphs  *)
(* of the pipeline, each once and in document order; when layout returns   *)
(* they are all the paragraphs if some container has a column and none     *)
(* otherwise; and layout returns in every case.                            *)
C25_ExactlyOnce ==
  /\ [](/\ laidOut = [i \in 1 .. Len(laidOut) |-> i]
        /\ Len(laidOut) <= Len(res)
        /\ pc = "layoutDone" =>
             Len(laidOut) = IF someColumn THEN Len(res) ELSE 0)
  /\ <>(pc = "layoutDone")

(* layout has returned; the first container has no column, the second has  *)
(* two, and the three paragraphs were laid out in order.                   *)
C25_Witness ==
  /\ pc = "layoutDone"
  /\ Len(containers) = 2
  /\ containers[1].columns = 0 /\ containers[2].columns = 2
  /\ Len(res) = 3
  /\ laidOut = <<1, 2, 3>>

(* The alignment and paragraph attributes of the first run of paragraph p. *)
paragraphAttributes(p) == [k \in ParagraphKeys |-> firstRunAttributes(p)[k]]

(* C22, as claimed: the style layoutParagraph hands the line breaker is    *)
(* computed from the attributes of the first run of the paragraph, so two  *)
(* paragraphs laid out one after the other whose first runs differ in      *)
(* their paragraph attributes are broken with different styles.            *)
C22_Original ==
  [][(/\ block # <<>>
      /\ block' # block
      /\ paragraphAttributes(block.paragraph) # paragraphAttributes(block'.paragraph))
       => style' # style]_vars

----------------------------------------------------------------------------
(* resolveAttachments (LayoutEngine.js 222-240; the same loop is           *)
(* GlyphGenerator.resolveAttachments, src/unnamed/part_000 60-77).         *)
(* A paragraph is [syllables, value] and value.glyphRuns are glyph runs    *)
(* [start, end, attributes, glyphs, positions]; a glyph is known by its    *)
(* name in the font of its run.                                            *)

MaxAttachRuns == 2  \* most glyph runs of the paragraph
MaxRunGlyphs == 2   \* most glyphs of a glyph run
AttachWidth == 30   \* the width of an attachment

GlyphNames == {".notdef", "a", "uFFFC"}

(* font.glyphForCodePoint(0xfffc): the font Plain has a glyph for U+FFFC,  *)
(* the font Bare has none and answers with .notdef.                        *)
Fonts == {"Plain", "Bare"}
glyphForCodePoint(font, glyphName) ==
  IF font = "Plain" /\ glyphName \in GlyphNames THEN glyphName ELSE ".notdef"

(* attributes.attachment: null, or an attachment with its width.           *)
NoAttachment == [isNull |-> TRUE, width |-> 0]
Attachments == {NoAttachment} \cup {[isNull |-> FALSE, width |-> w] : w \in {0, AttachWidth}}

(* glyphRun.length: the glyphs start .. end - 1 of the glyph string.       *)
runLength(glyphRun) == glyphRun.end - glyphRun.start

(* The mutant of resolveAttachment: every glyph of a run with an           *)
(* attachment gets its width.                                              *)
resolveAttachmentAll(glyphRun) ==
  IF glyphRun.attributes.attachment.isNull THEN glyphRun
  ELSE [start |-> glyphRun.start, end |-> glyphRun.end,
        attributes |-> glyphRun.attributes, glyphs |-> glyphRun.glyphs,
        positions |->
          [i \in 1 .. runLength(glyphRun) |->
             [xAdvance |-> glyphRun.attributes.attachment.width,
              yAdvance |-> glyphRun.positions[i].yAdvance,
              xOffset |-> glyphRun.positions[i].xOffset,
              yOffset |-> glyphRun.positions[i].yOffset]]]

(* Lines 225-234: one glyph run.                                           *)
resolveAttachment(glyphRun) ==
  IF glyphRun.attributes.attachment.isNull THEN glyphRun
  ELSE LET objectReplacement == glyphForCodePoint(glyphRun.attributes.font, "uFFFC")
       IN  [start |-> glyphRun.start, end |-> glyphRun.end,
            attributes |-> glyphRun.attributes, glyphs |-> glyphRun.glyphs,
            positions |->
              [i \in 1 .. runLength(glyphRun) |->
                 IF glyphRun.glyphs[i] = objectReplacement
                   THEN [xAdvance |-> glyphRun.attributes.attachment.width,
                         yAdvance |-> glyphRun.positions[i].yAdvance,
                         xOffset |-> glyphRun.positions[i].xOffset,
                         yOffset |-> glyphRun.positions[i].yOffset]
                   ELSE glyphRun.positions[i]]]

(* Lines 222-240: every glyph run of the paragraph; the paragraph itself   *)
(* is returned.                                                            *)
resolveAttachments(pg) ==
  [syllables |-> pg.syllables,
   value |-> [glyphRuns |->
                [r \in 1 .. Len(pg.value.glyphRuns) |->
                   resolveAttachment(pg.value.glyphRuns[r])]]]

(* stringToGlyphs, lines 183-203: the glyph runs follow each other in the  *)
(* glyph string, each with one position per glyph.                         *)
glyphRunsOf(inputs) ==
  [r \in 1 .. Len(inputs) |->
     LET before == Len(Concat([k \in 1 .. r - 1 |-> inputs[k].glyphs]))
     IN  [start |-> before, end |-> before + Len(inputs[r].glyphs),
          attributes |-> [font |-> inputs[r].font, attachment |-> inputs[r].attachment],
          glyphs |-> inputs[r].glyphs,
          positions |-> [i \in 1 .. Len(inputs[r].glyphs) |->
                           [xAdvance |-> GlyphAdvance, yAdvance |-> 0,
                            xOffset |-> 0, yOffset |-> 0]]]]

InitAttach ==
  /\ pc = "attach"
  /\ \E n \in 0 .. MaxAttachRuns :
       \E inputs \in [1 .. n -> [glyphs : SeqsUpTo(GlyphNames, MaxRunGlyphs),
                                font : Fonts, attachment : Attachments]] :
         paragraph = [syllables |-> <<>>, value |-> [glyphRuns |-> glyphRunsOf(inputs)]]
  /\ output = <<>>
  /\ heap = <<>> /\ attributedString = <<>>
  /\ IdleSplit /\ IdleGlyph /\ IdleJust /\ IdleFin /\ IdleTypesetter
  /\ IdleBox /\ IdleRender

ResolveAttachments ==
  /\ pc = "attach"
  /\ paragraph' = resolveAttachments(paragraph)
  /\ output' = paragraph'
  /\ pc' = "attached"
  /\ UNCHANGED <<heap, attributedString, boxVars, renderVars,
                 splitVars, glyphVars, justVars, finVars, layoutVars>>

NextAttach == ResolveAttachments

SpecAttach == InitAttach /\ [][NextAttach]_vars

(* The glyphs of the paragraph: run r, glyph i.                            *)
glyphsIn(pg) ==
  {<<r, i>> : r \in 1 .. Len(pg.value.glyphRuns), i \in 1 .. MaxRunGlyphs + 1}
    \cap {g \in (1 .. MaxAttachRuns + 1) \X (1 .. MaxRunGlyphs + 1) :
            /\ g[1] <= Len(pg.value.glyphRuns)
            /\ g[2] <= Len(pg.value.glyphRuns[g[1]].glyphs)}

(* Glyph g is the U+FFFC glyph of the font of its run and the run has an   *)
(* attachment.                                                             *)
isAttachment(pg, g) ==
  LET glyphRun == pg.value.glyphRuns[g[1]]
  IN  /\ ~glyphRun.attributes.attachment.isNull
      /\ glyphRun.glyphs[g[2]] = glyphForCodePoint(glyphRun.attributes.font, "uFFFC")

(* C24: resolveAttachments sets xAdvance to attachment.width for exactly   *)
(* the glyphs that are the U+FFFC glyph of their font in a run with an     *)
(* attachment; it leaves every other xAdvance, every yAdvance, xOffset     *)
(* and yOffset, the glyphs, the attributes and the ranges of the runs as   *)
(* they were, and returns the paragraph it was given.                      *)
C24_Attachments ==
  [][pc' = "attached" =>
       /\ output' = paragraph'
       /\ Len(paragraph'.value.glyphRuns) = Len(paragraph.value.glyphRuns)
       /\ \A r \in 1 .. Len(paragraph.value.glyphRuns) :
            LET before == paragraph.value.glyphRuns[r]
                after == paragraph'.value.glyphRuns[r]
            IN  /\ after.glyphs = before.glyphs
                /\ after.attributes = before.attributes
                /\ after.start = before.start /\ after.end = before.end
                /\ Len(after.positions) = Len(before.positions)
                /\ before.attributes.attachment.isNull => after.positions = before.positions
       /\ \A g \in glyphsIn(paragraph) :
            LET before == paragraph.value.glyphRuns[g[1]].positions[g[2]]
                after == paragraph'.value.glyphRuns[g[1]].positions[g[2]]
            IN  /\ after.yAdvance = before.yAdvance
                /\ after.xOffset = before.xOffset
                /\ after.yOffset = before.yOffset
                /\ after.xAdvance =
                     IF isAttachment(paragraph, g)
                       THEN paragraph.value.glyphRuns[g[1]].attributes.attachment.width
                       ELSE before.xAdvance]_vars

(* A run with an attachment holds a letter and the U+FFFC glyph, which has *)
(* got the width of the attachment; a run without an attachment holds the  *)
(* U+FFFC glyph too, with the advance it had.                              *)
C24_Witness ==
  /\ pc = "attached"
  /\ Len(paragraph.value.glyphRuns) = 2
  /\ LET first == paragraph.value.glyphRuns[1]
         second == paragraph.value.glyphRuns[2]
     IN  /\ ~first.attributes.attachment.isNull
         /\ first.attributes.attachment.width = AttachWidth
         /\ first.attributes.font = "Plain"
         /\ first.glyphs = <<"a", "uFFFC">>
         /\ first.positions[1].xAdvance = GlyphAdvance
         /\ first.positions[2].xAdvance = AttachWidth
         /\ second.attributes.attachment.isNull
         /\ second.glyphs = <<"uFFFC">>
         /\ second.positions[1].xAdvance = GlyphAdvance

----------------------------------------------------------------------------
(* BBox (src/unnamed/part_000 3-49).  A number is finite or one of the two *)
(* infinities the constructor starts from; a BBox is an object of the heap *)
(* boxes, known by its address.                                            *)

MaxCoord == 1     \* x and y are -MaxCoord .. MaxCoord, width and height 0 .. MaxCoord
MaxBoxCalls == 3  \* most addPoint and addRect calls

Num(n) == [inf |-> 0, v |-> n]
Infinity == [inf |-> 1, v |-> 0]
NegInfinity == [inf |-> 0 - 1, v |-> 0]

(* a < b and a > b on numbers.                                             *)
lt(a, b) == a.inf < b.inf \/ (a.inf = 0 /\ b.inf = 0 /\ a.v < b.v)
gt(a, b) == lt(b, a)

(* Lines 4-9: new BBox(minX, minY, maxX, maxY) and its defaults.           *)
BBox(x0, y0, x1, y1) == [minX |-> x0, minY |-> y0, maxX |-> x1, maxY |-> y1]
newBBox == BBox(Infinity, Infinity, NegInfinity, NegInfinity)

(* The mutant of addPoint: the tests of the maxima are the else branches   *)
(* of the tests of the minima.                                             *)
addPointElse(this, x, y) ==
  [minX |-> IF lt(x, this.minX) THEN x ELSE this.minX,
   minY |-> IF lt(y, this.minY) THEN y ELSE this.minY,
   maxX |-> IF ~lt(x, this.minX) /\ gt(x, this.maxX) THEN x ELSE this.maxX,
   maxY |-> IF ~lt(y, this.minY) /\ gt(y, this.maxY) THEN y ELSE this.maxY]

(* Lines 19-35: the four tests, each on a field of its own.                *)
addPoint(this, x, y) ==
  [minX |-> IF lt(x, this.minX) THEN x ELSE this.minX,
   minY |-> IF lt(y, this.minY) THEN y ELSE this.minY,
   maxX |-> IF gt(x, this.maxX) THEN x ELSE this.maxX,
   maxY |-> IF gt(y, this.maxY) THEN y ELSE this.maxY]

(* Rect.maxX and Rect.maxY of a rect with finite fields: x + width and     *)
(* y + height.                                                             *)
corners(rect) ==
  <<<<Num(rect.x), Num(rect.y)>>,
    <<Num(rect.x + rect.width), Num(rect.y + rect.height)>>>>

(* Lines 37-40.                                                            *)
addRect(this, rect) ==
  addPoint(addPoint(this, corners(rect)[1][1], corners(rect)[1][2]),
           corners(rect)[2][1], corners(rect)[2][2])

(* Lines 46-48: copy() makes a new object; the result is the heap and the  *)
(* address returned.                                                       *)
copy(objects, this) ==
  [heap |-> Append(objects, BBox(objects[this].minX, objects[this].minY,
                                 objects[this].maxX, objects[this].maxY)),
   ref |-> Len(objects) + 1]

Coords == (0 - MaxCoord) .. MaxCoord
Rects == [x : Coords, y : Coords, width : 0 .. MaxCoord, height : 0 .. MaxCoord]

(* The references the caller holds: 1 is the box it constructed, 2 the     *)
(* result of copy().  points[k] are the points added through reference k,  *)
(* for the copy together with those the original had when it was copied.   *)
refs == IF copied = 0 THEN {1} ELSE {1, 2}
address(k) == IF k = 1 THEN 1 ELSE copied

(* The calls made so far.                                                  *)
boxCalls == points[1].calls + (IF copied = 0 THEN 0 ELSE points[2].calls)

InitBBox ==
  /\ pc = "bbox"
  /\ boxes = <<newBBox>>
  /\ copied = 0
  /\ points = <<[added |-> {}, calls |-> 0]>>
  /\ output = <<>>
  /\ heap = <<>> /\ attributedString = <<>>
  /\ IdleSplit /\ IdleGlyph /\ IdleJust /\ IdleFin /\ IdleTypesetter
  /\ IdleAttach /\ IdleRender

idleInBBox ==
  <<pc, output, heap, attributedString, attachVars, renderVars,
    splitVars, glyphVars, justVars, finVars, layoutVars>>

AddPoint ==
  \E k \in refs : \E x \in Coords, y \in Coords :
    /\ boxCalls < MaxBoxCalls
    /\ boxes' = [boxes EXCEPT ![address(k)] = addPoint(boxes[address(k)], Num(x), Num(y))]
    /\ points' = [points EXCEPT ![k] = [added |-> points[k].added \cup {<<Num(x), Num(y)>>},
                                        calls |-> points[k].calls + 1]]
    /\ UNCHANGED <<copied, idleInBBox>>

AddRect ==
  \E k \in refs : \E rect \in Rects :
    /\ boxCalls < MaxBoxCalls
    /\ boxes' = [boxes EXCEPT ![address(k)] = addRect(boxes[address(k)], rect)]
    /\ points' = [points EXCEPT ![k] = [added |-> points[k].added
                                                    \cup {corners(rect)[1], corners(rect)[2]},
                                        calls |-> points[k].calls + 1]]
    /\ UNCHANGED <<copied, idleInBBox>>

Copy ==
  /\ copied = 0
  /\ boxes' = copy(boxes, 1).heap
  /\ copied' = copy(boxes, 1).ref
  /\ points' = Append(points, [added |-> points[1].added, calls |-> 0])
  /\ UNCHANGED idleInBBox

NextBBox == AddPoint \/ AddRect \/ Copy

SpecBBox == InitBBox /\ [][NextBBox]_vars

(* The least and the greatest of a set of numbers; of no number at all     *)
(* they are Infinity and -Infinity.                                        *)
least(S) == CHOOSE m \in S \cup {Infinity} : \A n \in S : ~lt(n, m)
greatest(S) == CHOOSE m \in S \cup {NegInfinity} : \A n \in S : ~gt(n, m)
xs(k) == {p[1] : p \in points[k].added}
ys(k) == {p[2] : p \in points[k].added}

(* A step makes no box smaller, and a call through one reference leaves   *)
(* the box of the other reference as it was.                               *)
neverShrinks ==
  \A a \in 1 .. Len(boxes) :
    /\ ~gt(boxes'[a].minX, boxes[a].minX) /\ ~gt(boxes'[a].minY, boxes[a].minY)
    /\ ~lt(boxes'[a].maxX, boxes[a].maxX) /\ ~lt(boxes'[a].maxY, boxes[a].maxY)
copyApart ==
  /\ (copied # 0 /\ points'[2] # points[2]) => boxes'[1] = boxes[1]
  /\ (copied # 0 /\ points'[1] # points[1]) => boxes'[copied] = boxes[copied]

(* C29: whatever addPoint and addRect calls have been made on a new BBox,  *)
(* in whatever order, minX, minY, maxX and maxY are the least and the      *)
(* greatest x and y added so far; no call makes minX or minY greater or    *)
(* maxX or maxY less; and the calls made on a copy() leave the original    *)
(* as it was.                                                              *)
C29_BBox ==
  /\ [](\A k \in refs :
          /\ boxes[address(k)].minX = least(xs(k))
          /\ boxes[address(k)].minY = least(ys(k))
          /\ boxes[address(k)].maxX = greatest(xs(k))
          /\ boxes[address(k)].maxY = greatest(ys(k))
          /\ \A p \in points[k].added :
               /\ ~lt(p[1], boxes[address(k)].minX) /\ ~gt(p[1], boxes[address(k)].maxX)
               /\ ~lt(p[2], boxes[address(k)].minY) /\ ~gt(p[2], boxes[address(k)].maxY))
  /\ [][neverShrinks /\ copyApart]_vars

(* The original has got a point and a rect, the copy made in between has   *)
(* got another point that lies outside the original, which has not moved.  *)
C29_Witness ==
  /\ copied = 2
  /\ points[1].calls = 2 /\ points[2].calls = 1
  /\ boxes[1] = BBox(Num(0), Num(0 - 1), Num(1), Num(0))
  /\ boxes[2] = BBox(Num(0 - 1), Num(0), Num(0), Num(1))

----------------------------------------------------------------------------
(* render (src/src/run/extend.js 23-197).  ctx is the drawing context of   *)
(* the caller: what is kept of it is how often save and restore have been  *)
(* called and which of the methods of Kept have been.  Every step is one   *)
(* save or restore call together with the calls that do not touch the      *)
(* stack of saved states around it; blocks, lines, runs, glyphs and        *)
(* decoration lines are read when the loop that visits them reaches them.  *)

MaxBlocks == 2          \* most blocks of blocks
MaxBlockLines == 2      \* most lines of a block
MaxLineRuns == 2        \* most runs of a line
MaxRenderGlyphs == 2    \* most glyphs of a run
MaxDecorationLines == 1 \* most decoration lines of a line

DecorationStyles == {"solid", "dashed", "dotted", "wavy", "double", "dashed wavy"}

save(c) == [c EXCEPT !.save = @ + 1]
restore(c) == [c EXCEPT !.restore = @ + 1]
(* The methods whose calls are kept: each is called in one branch only.    *)
Kept == {"image", "glyph.render", "_addGlyphs", "bezierCurveTo"}
call(c, methods) == [c EXCEPT !.calls = @ \cup (methods \cap Kept)]

(* glyph.render(ctx, fontSize) of a colour glyph is the font library's: it *)
(* draws on ctx and leaves the stack of saved states as it found it.       *)
glyphRender(c) == call(c, {"glyph.render"})

(* Lines 109-150: the calls of renderDecorationLine between its save and   *)
(* its restore, for a line of the given style.                             *)
decorationCalls(decoration, stepCount) ==
  {"lineWidth", "strokeOpacity", "moveTo", "stroke"}
    \cup (IF decoration \in {"dashed", "dotted", "dashed wavy"} THEN {"dash"} ELSE {})
    \cup (IF decoration \in {"wavy", "dashed wavy"}
            THEN (IF stepCount > 0 THEN {"bezierCurveTo"} ELSE {})
            ELSE {"lineTo"})

InitRender ==
  /\ pc = "render"
  /\ ctx = [save |-> 0, restore |-> 0, calls |-> {}]
  /\ \E n \in 0 .. MaxBlocks : \E outlineLines \in BOOLEAN, outlineRuns \in BOOLEAN :
       frame = [outlineLines |-> outlineLines, outlineRuns |-> outlineRuns,
                blocks |-> n, lines |-> 0, runs |-> 0, decorationLines |-> 0,
                glyphs |-> 0, i |-> 0, colour |-> FALSE]
  /\ output = <<>>
  /\ heap = <<>> /\ attributedString = <<>>
  /\ IdleSplit /\ IdleGlyph /\ IdleJust /\ IdleFin /\ IdleTypesetter
  /\ IdleAttach /\ IdleBox

idleInRender ==
  <<output, heap, attributedString, attachVars, boxVars,
    splitVars, glyphVars, justVars, finVars, layoutVars>>

(* Lines 193-195 and 187: the next block of blocks.                        *)
RenderBlock ==
  /\ pc = "render" /\ frame.blocks > 0
  /\ \E n \in 0 .. MaxBlockLines :
       frame' = [frame EXCEPT !.blocks = @ - 1, !.lines = n]
  /\ pc' = "renderBlock"
  /\ UNCHANGED <<ctx, idleInRender>>

(* Lines 193-197: no block is left, render returns.                        *)
RenderReturn ==
  /\ pc = "render" /\ frame.blocks = 0
  /\ pc' = "rendered"
  /\ UNCHANGED <<frame, ctx, idleInRender>>

(* Lines 188-189 and 153-161: the next line of the block, up to the save   *)
(* and translate before its runs.                                          *)
RenderLine ==
  /\ pc = "renderBlock" /\ frame.lines > 0
  /\ \E runs \in 0 .. MaxLineRuns, decorationLines \in 0 .. MaxDecorationLines :
       frame' = [frame EXCEPT !.lines = @ - 1, !.runs = runs,
                              !.decorationLines = decorationLines]
  /\ ctx' = call(save(call(ctx, IF frame.outlineLines THEN {"rect", "stroke"} ELSE {})),
                 {"translate"})
  /\ pc' = "renderLine"
  /\ UNCHANGED idleInRender

(* Lines 188-191: no line is left, renderBlock returns.                    *)
RenderBlockReturn ==
  /\ pc = "renderBlock" /\ frame.lines = 0
  /\ pc' = "render"
  /\ UNCHANGED <<frame, ctx, idleInRender>>

(* Lines 163-174, 57-75 and 24-28: the next run of the line, from its      *)
(* background to the save of renderAttachments.                            *)
RenderRun ==
  /\ pc = "renderLine" /\ frame.runs > 0
  /\ \E glyphs \in 0 .. MaxRenderGlyphs, colour \in BOOLEAN :
       frame' = [frame EXCEPT !.runs = @ - 1, !.glyphs = glyphs, !.i = 0,
                              !.colour = colour]
  /\ \E backgroundColor \in BOOLEAN, link \in BOOLEAN :
       ctx' = save(call(ctx, (IF backgroundColor THEN {"rect", "fill"} ELSE {})
                               \cup (IF frame.outlineRuns THEN {"rect", "stroke"} ELSE {})
                               \cup {"fillColor", "fillOpacity"}
                               \cup (IF link THEN {"link"} ELSE {})))
  /\ pc' = "renderAttachments"
  /\ UNCHANGED idleInRender

(* Lines 30-40 and 45-55: one glyph of renderAttachments, an attachment or *)
(* not.                                                                    *)
RenderAttachmentsGlyph ==
  /\ pc = "renderAttachments" /\ frame.i < frame.glyphs
  /\ frame' = [frame EXCEPT !.i = @ + 1]
  /\ \E attachment \in BOOLEAN :
       ctx' = call(ctx, {"translate"} \cup (IF attachment THEN {"image"} ELSE {}))
  /\ UNCHANGED <<pc, idleInRender>>

(* Line 42: the restore of renderAttachments.                              *)
RenderAttachmentsRestore ==
  /\ pc = "renderAttachments" /\ frame.i = frame.glyphs
  /\ ctx' = restore(ctx)
  /\ pc' = "renderRun"
  /\ UNCHANGED <<frame, idleInRender>>

(* Lines 77-80: a run in a colour font (sbix, or COLR and CPAL).           *)
RenderRunColour ==
  /\ pc = "renderRun" /\ frame.colour
  /\ ctx' = call(save(ctx), {"translate"})
  /\ frame' = [frame EXCEPT !.i = 0]
  /\ pc' = "renderGlyphs"
  /\ UNCHANGED idleInRender

(* Lines 96-100: a run in any other font.                                  *)
RenderRunPlain ==
  /\ pc = "renderRun" /\ ~frame.colour
  /\ ctx' = call(ctx, {"font", "_addGlyphs", "translate"})
  /\ frame' = [frame EXCEPT !.glyphs = 0, !.i = 0]
  /\ pc' = "renderLine"
  /\ UNCHANGED idleInRender

(* Lines 82-87: the save and translate before a colour glyph.              *)
RenderGlyphSave ==
  /\ pc = "renderGlyphs" /\ frame.i < frame.glyphs
  /\ ctx' = call(save(ctx), {"translate"})
  /\ pc' = "renderGlyph"
  /\ UNCHANGED <<frame, idleInRender>>

(* Lines 89-92: the colour glyph, the restore and the translate after it.  *)
RenderGlyphRestore ==
  /\ pc = "renderGlyph"
  /\ ctx' = call(restore(glyphRender(ctx)), {"translate"})
  /\ frame' = [frame EXCEPT !.i = @ + 1]
  /\ pc' = "renderGlyphs"
  /\ UNCHANGED idleInRender

(* The mutant of RenderRunRestore: the colour branch ends without its      *)
(* restore.                                                                *)
RenderRunNoRestore ==
  /\ pc = "renderGlyphs" /\ frame.i = frame.glyphs
  /\ ctx' = call(ctx, {"translate"})
  /\ frame' = [frame EXCEPT !.glyphs = 0, !.i = 0, !.colour = FALSE]
  /\ pc' = "renderLine"
  /\ UNCHANGED idleInRender

(* Lines 95 and 100: the restore that ends the colour branch.              *)
RenderRunRestore ==
  /\ pc = "renderGlyphs" /\ frame.i = frame.glyphs
  /\ ctx' = call(restore(ctx), {"translate"})
  /\ frame' = [frame EXCEPT !.glyphs = 0, !.i = 0, !.colour = FALSE]
  /\ pc' = "renderLine"
  /\ UNCHANGED idleInRender

(* Line 176: the restore after the runs of the line.                       *)
RenderLineRestore ==
  /\ pc = "renderLine" /\ frame.runs = 0
  /\ ctx' = restore(ctx)
  /\ pc' = "renderLineSave"
  /\ UNCHANGED <<frame, idleInRender>>

(* Lines 177-178: the save and translate before the decoration lines.      *)
RenderLineSave ==
  /\ pc = "renderLineSave"
  /\ ctx' = call(save(ctx), {"translate"})
  /\ pc' = "decorationLines"
  /\ UNCHANGED <<frame, idleInRender>>

(* Lines 180-181 and 109: the save of the next decoration line.            *)
RenderDecorationLineSave ==
  /\ pc = "decorationLines" /\ frame.decorationLines > 0
  /\ ctx' = save(ctx)
  /\ frame' = [frame EXCEPT !.decorationLines = @ - 1]
  /\ pc' = "renderDecorationLine"
  /\ UNCHANGED idleInRender

(* Lines 110-150: the decoration line is drawn in its style, then the      *)
(* restore.                                                                *)
RenderDecorationLineRestore ==
  /\ pc = "renderDecorationLine"
  /\ \E decoration \in DecorationStyles, stepCount \in {0, 1} :
       ctx' = restore(call(ctx, decorationCalls(decoration, stepCount)))
  /\ pc' = "decorationLines"
  /\ UNCHANGED <<frame, idleInRender>>

(* Line 184: the restore that ends renderLine.                             *)
RenderLineReturn ==
  /\ pc = "decorationLines" /\ frame.decorationLines = 0
  /\ ctx' = restore(ctx)
  /\ pc' = "renderBlock"
  /\ UNCHANGED <<frame, idleInRender>>

NextRender ==
  \/ RenderBlock \/ RenderReturn \/ RenderLine \/ RenderBlockReturn
  \/ RenderRun \/ RenderAttachmentsGlyph \/ RenderAttachmentsRestore
  \/ RenderRunColour \/ RenderRunPlain \/ RenderGlyphSave \/ RenderGlyphRestore
  \/ RenderRunRestore \/ RenderLineRestore \/ RenderLineSave
  \/ RenderDecorationLineSave \/ RenderDecorationLineRestore \/ RenderLineReturn

SpecRender == InitRender /\ [][NextRender]_vars

(* C30: at every moment of render the restore calls made on ctx are no     *)
(* more than the save calls made before them, and when render has          *)
(* returned they are as many: the stack of saved states of ctx is as deep  *)
(* as it was before the call.                                              *)
C30_SaveRestore ==
  /\ ctx.restore <= ctx.save
  /\ pc = "rendered" => ctx.restore = ctx.save

(* render has returned after a run in a colour font with a glyph, a run    *)
(* in another font, an attachment and a wavy decoration line.              *)
C30_Witness ==
  /\ pc = "rendered"
  /\ {"glyph.render", "_addGlyphs", "image", "bezierCurveTo"} \subseteq ctx.calls
  /\ ctx.save = ctx.restore
  /\ ctx.save > MaxBlocks

====
